---- MODULE Spec2Model ----
(***************************************************************************)
(* A model of bagelcount's backend service (backend/app/services/           *)
(* beancount.py): the BeancountService cache (load / entries), the writer   *)
(* add_budget, the resolver get_active_budgets, the readers                 *)
(* get_transactions and get_accounts, check_budget_include, the HTTP        *)
(* routes of backend/app/api/routes that call them, and threads that share  *)
(* one service.                                                             *)
(*                                                                          *)
(* Python str values that the code takes apart (tags, created_at) are       *)
(* tuples of one-character strings; ISO dates are strings looked up in a    *)
(* calendar table; an optional value (None or x) is <<>> or <<x>>.          *)
(***************************************************************************)
EXTENDS Integers, Sequences, FiniteSets, TLC

VARIABLES
    rootFile,            \* content of settings.beancount_file: a sequence of chunks
    incFile,             \* content of a ledger file the root file includes
    overlayFile,         \* content of settings.budget_file (the overlay)
    rootIncludesOverlay, \* does the root file carry include "<overlay>"
    mtime,               \* file name -> modification time, as os.path.getmtime reads it
    now,                 \* int(time.time())
    today,               \* date.today(), as a day ordinal
    _entries,            \* BeancountService._entries
    _loaded,             \* BeancountService._loaded
    lastOp,              \* name of the last service operation that ran
    parsed,              \* did the last service operation invoke loader_func
    lastArg,             \* <<allocation>> as add_budget last left its argument, or <<>>
    retEntries,          \* the list the last operation returned, if it was a read of entries
    retBudgets,          \* what the last operation returned, if it was get_active_budgets
    mtimeAtLoad,         \* observer: the mtimes read at the moment of the last load
    edits,               \* number of edits made to the files from outside the service
    _errors,             \* BeancountService._errors
    ret,                 \* what get_transactions, get_accounts or check_budget_include
                         \* returned, if one of them was the last operation
    http,                \* the last HTTP request and its response
    instances,           \* number of BeancountService objects get_beancount_service built
    rootText,            \* the root file as check_budget_include reads it: its state
                         \* on disk and the lines before its directives
    budget_file,         \* BeancountService.budget_file, a path
    rootIncludesInc,     \* does the root file carry the include of the included file
    overlayWritable,     \* can the overlay be opened for appending
    error,               \* the exception the last add_budget or load raised, "" for none
    validation,          \* the locals of create_budget when the last POST returned
    pc,                  \* the position of every thread that shares the service
    frame                \* the locals of every reader thread

vars == <<rootFile, incFile, overlayFile, rootIncludesOverlay, mtime, now, today,
          _entries, _loaded, lastOp, parsed, lastArg, retEntries,
          retBudgets, mtimeAtLoad, edits, _errors, ret, http, instances, rootText,
          budget_file, rootIncludesInc, overlayWritable, error, validation, pc, frame>>

\* the include of the included file, the permissions of the overlay, and what
\* threads that share the service hold
sideVars == <<rootIncludesInc, overlayWritable, pc, frame>>

\* the variables the cache, the writer and the resolver never touch
extVars == <<ret, http, instances, rootText, budget_file, error, validation, sideVars>>

\* the variables a call of the service leaves alone whether or not it raises
callVars == <<ret, http, instances, rootText, budget_file, validation, sideVars>>

(***************************************************************************)
(* Python text operations used by the service                               *)
(***************************************************************************)
Whitespace == {" "}

DigitChars == <<"0", "1", "2", "3", "4", "5", "6", "7", "8", "9">>

DigitSet == {DigitChars[i] : i \in 1..Len(DigitChars)}

DigitVal(c) == (CHOOSE i \in 1..Len(DigitChars) : DigitChars[i] = c) - 1

\* code point order of the characters that occur, as str comparison uses it
Ord(c) ==
    CASE c = " " -> 32
      [] c = "," -> 44
      [] c = "-" -> 45
      [] c \in DigitSet -> 48 + DigitVal(c)
      [] c = "a" -> 97
      [] c = "b" -> 98
      [] c = "x" -> 120
      [] OTHER -> 127

RECURSIVE lstrip(_)
lstrip(s) ==
    IF s # <<>> /\ Head(s) \in Whitespace THEN lstrip(Tail(s)) ELSE s

RECURSIVE rstrip(_)
rstrip(s) ==
    IF s # <<>> /\ s[Len(s)] \in Whitespace
    THEN rstrip(SubSeq(s, 1, Len(s) - 1))
    ELSE s

\* str.strip()
strip(s) == rstrip(lstrip(s))

\* str.split(sep): "" splits to [""], "a,b" to ["a", "b"]
RECURSIVE split(_, _)
split(s, sep) ==
    IF \A i \in 1..Len(s) : s[i] # sep
    THEN <<s>>
    ELSE LET i == CHOOSE k \in 1..Len(s) :
                      s[k] = sep /\ \A j \in 1..(k - 1) : s[j] # sep
         IN  <<SubSeq(s, 1, i - 1)>> \o split(SubSeq(s, i + 1, Len(s)), sep)

\* sep.join(parts)
RECURSIVE join(_, _)
join(sep, parts) ==
    IF parts = <<>> THEN <<>>
    ELSE IF Len(parts) = 1 THEN parts[1]
    ELSE parts[1] \o <<sep>> \o join(sep, Tail(parts))

\* s <= t in Python's str order
RECURSIVE StrLeq(_, _)
StrLeq(s, t) ==
    IF s = <<>> THEN TRUE
    ELSE IF t = <<>> THEN FALSE
    ELSE IF Ord(Head(s)) < Ord(Head(t)) THEN TRUE
    ELSE IF Ord(Head(s)) > Ord(Head(t)) THEN FALSE
    ELSE StrLeq(Tail(s), Tail(t))

\* insert x into an ascending list, after the elements that are <= x
RECURSIVE InsertAsc(_, _)
InsertAsc(x, l) ==
    IF l = <<>> THEN <<x>>
    ELSE IF StrLeq(Head(l), x) THEN <<Head(l)>> \o InsertAsc(x, Tail(l))
    ELSE <<x>> \o l

\* sorted(list of str)
RECURSIVE sorted(_)
sorted(l) ==
    IF l = <<>> THEN <<>>
    ELSE InsertAsc(l[Len(l)], sorted(SubSeq(l, 1, Len(l) - 1)))

RECURSIVE DigitsValue(_)
DigitsValue(ds) ==
    IF ds = <<>> THEN 0
    ELSE 10 * DigitsValue(SubSeq(ds, 1, Len(ds) - 1)) + DigitVal(ds[Len(ds)])

IntBody(s) ==
    LET t == strip(s)
    IN  IF t # <<>> /\ t[1] \in {"-", "+"} THEN Tail(t) ELSE t

\* int(s) succeeds: optional blanks, optional sign, one digit or more
IntParses(s) ==
    /\ IntBody(s) # <<>>
    /\ \A i \in 1..Len(IntBody(s)) : IntBody(s)[i] \in DigitSet

\* int(s), where it succeeds
IntOf(s) ==
    LET t == strip(s)
    IN  IF t[1] = "-" THEN 0 - DigitsValue(IntBody(s)) ELSE DigitsValue(IntBody(s))

\* str(n) of an int
RECURSIVE NatStr(_)
NatStr(n) ==
    IF n < 10 THEN <<DigitChars[n + 1]>>
    ELSE NatStr(n \div 10) \o <<DigitChars[(n % 10) + 1]>>

StrOfInt(n) == IF n < 0 THEN <<"-">> \o NatStr(0 - n) ELSE NatStr(n)

\* The calendar: the ISO date strings of the model and their day ordinals.
Calendar ==
    [s \in {"2024-01-01", "2024-01-15", "2024-01-20", "2024-02-01"} |->
        CASE s = "2024-01-01" -> 1
          [] s = "2024-01-15" -> 15
          [] s = "2024-01-20" -> 20
          [] s = "2024-02-01" -> 32]

\* date.fromisoformat(s) succeeds (it raises ValueError otherwise)
IsIsoDate(s) == s \in DOMAIN Calendar

\* date.fromisoformat(s)
fromisoformat(s) == Calendar[s]

\* date.isoformat()
isoformat(d) == CHOOSE s \in DOMAIN Calendar : Calendar[s] = d

(***************************************************************************)
(* Directives, as loader_func returns them                                  *)
(*                                                                          *)
(* A metadata value is [t, v]: t = "absent" (the key is not in meta),       *)
(* "str" (a quoted string) or "date" (a date literal written without        *)
(* quotes, which the parser hands over as a datetime.date).                 *)
(***************************************************************************)
NoStr == [t |-> "absent", v |-> ""]

NoText == [t |-> "absent", v |-> <<>>]

Str(x) == [t |-> "str", v |-> x]

DateLit(x) == [t |-> "date", v |-> x]

\* a Custom directive of type "budget": values (account, amount currency) and meta
BudgetDirective(d, acc, amt, cur, start, freq, end, tgs, created) ==
    [kind |-> "budget", date |-> d, account |-> acc, amount |-> amt,
     currency |-> cur, start_date |-> start, frequency |-> freq,
     end_date |-> end, tags |-> tgs, created_at |-> created]

\* an Open directive (any entry that is no Custom "budget")
OpenDirective(d, acc) ==
    [kind |-> "open", date |-> d, account |-> acc, amount |-> 0,
     currency |-> "USD", start_date |-> NoStr, frequency |-> NoStr,
     end_date |-> NoStr, tags |-> NoText, created_at |-> NoText]

\* StandardBudget.frequency: Literal["monthly", "quarterly", "yearly"]
Frequencies == {"monthly", "quarterly", "yearly"}

StandardBudget(acc, amt, cur, tgs, created, start, freq) ==
    [variant |-> "Standard", account |-> acc, amount |-> amt, currency |-> cur,
     tags |-> tgs, created_at |-> created, start_date |-> start,
     frequency |-> <<freq>>, end_date |-> <<>>]

CustomBudget(acc, amt, cur, tgs, created, start, end) ==
    [variant |-> "Custom", account |-> acc, amount |-> amt, currency |-> cur,
     tags |-> tgs, created_at |-> created, start_date |-> start,
     frequency |-> <<>>, end_date |-> <<end>>]

(***************************************************************************)
(* get_active_budgets                                                       *)
(***************************************************************************)
\* [t.strip() for t in meta.get("tags", "").split(",") if t.strip()]
RECURSIVE StripNonEmpty(_)
StripNonEmpty(parts) ==
    IF parts = <<>> THEN <<>>
    ELSE IF strip(Head(parts)) # <<>>
         THEN <<strip(Head(parts))>> \o StripNonEmpty(Tail(parts))
         ELSE StripNonEmpty(Tail(parts))

ParseTags(text) == StripNonEmpty(split(text, ","))

\* faulty variant: the tags are left out of the key
StandardKeyNoTags(acc, start, freq, tgs) == <<acc, start, <<freq>>, <<>>, <<>>>>

\* faulty variant: the tags enter the key in the order written, tuple(tags)
StandardKeyUnsorted(acc, start, freq, tgs) == <<acc, start, <<freq>>, <<>>, tgs>>

\* the key of a StandardBudget: (account, b_start, meta["frequency"], tuple(sorted(tags)))
StandardKey(acc, start, freq, tgs) == <<acc, start, <<freq>>, <<>>, sorted(tgs)>>

\* the key of a CustomBudget: (account, b_start, b_end, tuple(sorted(tags)))
CustomKey(acc, start, end, tgs) == <<acc, start, <<>>, <<end>>, sorted(tgs)>>

Skipped == [st |-> "skip"]

Raised == [st |-> "raise"]

\* faulty variant: an end_date in the metadata takes precedence over a frequency
FrequencyBranchUnlessEndDate(entry) ==
    entry.frequency.t # "absent" /\ entry.end_date.t = "absent"

\* if "frequency" in meta: (tested before "end_date" in meta)
FrequencyBranch(entry) == entry.frequency.t # "absent"

\* The body of the try block for one budget entry: the entry is accepted with a
\* budget object and a key, skipped (continue, or an exception the except
\* clause catches: KeyError, ValueError, IndexError, AttributeError), or makes
\* the call raise (TypeError is not caught).
TryEntry(entry) ==
    IF entry.start_date.t = "absent" THEN Skipped
    ELSE IF entry.tags.t \notin {"absent", "str"} THEN Skipped
    ELSE IF entry.start_date.t # "str" THEN Raised
    ELSE IF ~IsIsoDate(entry.start_date.v) THEN Skipped
    ELSE IF entry.created_at.t \notin {"absent", "str"} THEN Raised
    ELSE IF entry.created_at.t = "str" /\ ~IntParses(entry.created_at.v) THEN Skipped
    ELSE
      LET tgs == ParseTags(entry.tags.v)
          b_start == fromisoformat(entry.start_date.v)
          b_created == IF entry.created_at.t = "absent" THEN 0
                       ELSE IntOf(entry.created_at.v)
      IN  IF FrequencyBranch(entry)
          THEN IF entry.frequency.t = "str" /\ entry.frequency.v \in Frequencies
               THEN [st |-> "ok",
                     b |-> StandardBudget(entry.account, entry.amount, entry.currency,
                                          tgs, <<b_created>>, b_start,
                                          entry.frequency.v),
                     key |-> StandardKey(entry.account, b_start,
                                         entry.frequency.v, tgs)]
               ELSE Skipped
          ELSE IF entry.end_date.t # "absent"
          THEN IF entry.end_date.t # "str" THEN Raised
               ELSE IF ~IsIsoDate(entry.end_date.v) THEN Skipped
               ELSE [st |-> "ok",
                     b |-> CustomBudget(entry.account, entry.amount, entry.currency,
                                        tgs, <<b_created>>, b_start,
                                        fromisoformat(entry.end_date.v)),
                     key |-> CustomKey(entry.account, b_start,
                                       fromisoformat(entry.end_date.v), tgs)]
          ELSE Skipped

\* one turn of the for loop over self.entries
Outcome(entry) ==
    IF entry.kind = "budget" THEN TryEntry(entry) ELSE Skipped

\* lambda x: x.created_at or 0
SortKey(b) == IF b.created_at = <<>> THEN 0 ELSE b.created_at[1]

\* insert b into a list sorted by descending key, after the elements whose key
\* is >= b's (sorted(..., reverse=True) keeps the order of equal elements)
RECURSIVE InsertDesc(_, _)
InsertDesc(b, l) ==
    IF l = <<>> THEN <<b>>
    ELSE IF SortKey(Head(l)) >= SortKey(b)
         THEN <<Head(l)>> \o InsertDesc(b, Tail(l))
         ELSE <<b>> \o l

\* sorted(candidates, key=lambda x: x.created_at or 0, reverse=True)
RECURSIVE SortedByCreatedDesc(_)
SortedByCreatedDesc(l) ==
    IF l = <<>> THEN <<>>
    ELSE InsertDesc(l[Len(l)], SortedByCreatedDesc(SubSeq(l, 1, Len(l) - 1)))

\* winner = sorted(...)[0]
Winner(candidates) == SortedByCreatedDesc(candidates)[1]

\* active_candidates after the loop: the keys in insertion order, and per key the
\* accepted budgets in entry order
RECURSIVE KeysInOrder(_)
KeysInOrder(outs) ==
    IF outs = <<>> THEN <<>>
    ELSE LET before == KeysInOrder(SubSeq(outs, 1, Len(outs) - 1))
             o == outs[Len(outs)]
         IN  IF o.st = "ok" /\ \A i \in 1..Len(before) : before[i] # o.key
             THEN Append(before, o.key)
             ELSE before

RECURSIVE Candidates(_, _)
Candidates(outs, key) ==
    IF outs = <<>> THEN <<>>
    ELSE LET o == Head(outs)
         IN  IF o.st = "ok" /\ o.key = key
             THEN <<o.b>> \o Candidates(Tail(outs), key)
             ELSE Candidates(Tail(outs), key)

\* get_active_budgets over a list of entries: [raised, budgets]
ResolveEntries(entries) ==
    LET outs == [i \in 1..Len(entries) |-> Outcome(entries[i])]
        keys == KeysInOrder(outs)
    IN  IF \E i \in 1..Len(outs) : outs[i].st = "raise"
        THEN [raised |-> TRUE, budgets |-> <<>>]
        ELSE [raised |-> FALSE,
              budgets |-> [k \in 1..Len(keys) |-> Winner(Candidates(outs, keys[k]))]]

(***************************************************************************)
(* The files and the loader                                                 *)
(*                                                                          *)
(* A file is a sequence of chunks [lead, entry]: the text lead followed by  *)
(* the text of one directive. A chunk's place in its file stands for the    *)
(* directive's line number.                                                 *)
(***************************************************************************)
Chunk(lead, entry) == [lead |-> lead, entry |-> entry]

Files == {"root", "inc", "overlay"}

\* beancount.core.data.SORT_ORDER: Open sorts first and Close last among the
\* entries of a day
TypeOrder(kind) ==
    IF kind = "open" THEN 0 - 2 ELSE IF kind = "close" THEN 2 ELSE 0

\* data.entry_sortkey: (date, type order, line number)
Located(file) == [i \in 1..Len(file) |-> [entry |-> file[i].entry, lineno |-> i]]

SortsBefore(x, y) ==
    \/ x.entry.date < y.entry.date
    \/ /\ x.entry.date = y.entry.date
       /\ \/ TypeOrder(x.entry.kind) < TypeOrder(y.entry.kind)
          \/ /\ TypeOrder(x.entry.kind) = TypeOrder(y.entry.kind)
             /\ x.lineno < y.lineno

RECURSIVE InsertEntry(_, _)
InsertEntry(x, l) ==
    IF l = <<>> THEN <<x>>
    ELSE IF SortsBefore(x, Head(l)) THEN <<x>> \o l
    ELSE <<Head(l)>> \o InsertEntry(x, Tail(l))

RECURSIVE SortEntries(_)
SortEntries(l) ==
    IF l = <<>> THEN <<>>
    ELSE InsertEntry(l[Len(l)], SortEntries(SubSeq(l, 1, Len(l) - 1)))

\* text the parser cannot read yields a parser error and no entry
Parses(x) == x.entry.kind # "unparsable"

\* loader.load_file(filepath): the directives of the root file and of the files
\* it includes, sorted by entry_sortkey (a stable sort)
LoadFile(root, inc, overlay, includesOverlay) ==
    LET all == Located(root) \o Located(inc)
               \o (IF includesOverlay THEN Located(overlay) ELSE <<>>)
        srt == SortEntries(SelectSeq(all, Parses))
    IN  [i \in 1..Len(srt) |-> srt[i].entry]

\* the errors the loader returns next to the entries: one per text it cannot parse
LoadErrors(root, inc, overlay, includesOverlay) ==
    LET all == Located(root) \o Located(inc)
               \o (IF includesOverlay THEN Located(overlay) ELSE <<>>)
        bad == SelectSeq(all, LAMBDA x : ~Parses(x))
    IN  [i \in 1..Len(bad) |-> bad[i].lineno]

(***************************************************************************)
(* Paths and the text of the root file                                      *)
(*                                                                          *)
(* A path is the tuple of its components; text is a tuple of tokens (words, *)
(* single characters, path components).                                     *)
(***************************************************************************)
\* settings.beancount_file, seen from the working directory
RootPath == <<"data", "main.beancount">>

\* settings.budget_file next to the root file
BudgetPath == <<"data", "budgets.beancount">>

\* os.path.dirname(path)
dirname(path) == SubSeq(path, 1, Len(path) - 1)

\* length of the longest common prefix of two paths
RECURSIVE CommonLen(_, _)
CommonLen(p, q) ==
    IF p = <<>> \/ q = <<>> \/ Head(p) # Head(q) THEN 0
    ELSE 1 + CommonLen(Tail(p), Tail(q))

\* os.path.relpath(path, start): ".." for every component of start below the
\* common prefix, then the rest of path
relpath(path, start) ==
    LET c == CommonLen(path, start)
    IN  [i \in 1..(Len(start) - c) |-> ".."] \o SubSeq(path, c + 1, Len(path))

\* the text of a path: its components joined by "/"
PathText(path) == join("/", [i \in 1..Len(path) |-> <<path[i]>>])

\* f'include "{rel_path}"'
IncludeText(path) == <<"include", " ", "\"">> \o PathText(path) \o <<"\"">>

\* the root file of a service whose ledger does or does not include the overlay
RootTextOf(includes) ==
    [stat |-> "ok",
     lines |-> IF includes THEN <<IncludeText(relpath(BudgetPath, dirname(RootPath)))>>
               ELSE <<>>]

\* nothing returned yet by get_transactions, get_accounts, check_budget_include
NoRet == [op |-> "none"]

\* no HTTP request made yet
NoHttp == [route |-> "none"]

\* no POST /budgets validated yet
NoValidation == [checked |-> FALSE]

\* the threads that share one service: two that read entries, one that calls
\* add_budget
Readers == {"r1", "r2"}

Writer == "w"

Threads == Readers \cup {Writer}

\* the locals of a reader that is not inside the entries property
NoFrame == [fetched |-> <<>>, since |-> 0, result |-> <<>>, returned |-> FALSE]

\* the state next to the service in a single-threaded run with a writable overlay
\* and an included file
SideInit ==
    /\ rootIncludesInc = TRUE
    /\ overlayWritable = TRUE
    /\ error = ""
    /\ validation = NoValidation
    /\ pc = [t \in Threads |-> "idle"]
    /\ frame = [t \in Readers |-> NoFrame]

(***************************************************************************)
(* Bounds of the model and the inputs of its operations                     *)
(***************************************************************************)
MaxHist == 3

MaxAdds == 2

MaxEdits == 1

MaxTicks == 1

StartClock == 4

MaxLedger == 2

MaxLines == 2

MaxRequests == 2

\* seconds per day on the model's clock
SecondsPerDay == 5

\* date.today() of a moment of time.time()
DayOf(t) == t \div SecondsPerDay

\* the directive a hand edit adds to a ledger file
HandEdit ==
    BudgetDirective(0, "Expenses:Food", 5, "USD", Str("2024-01-01"),
                    Str("monthly"), NoStr, NoText, Str(<<"3">>))

\* what the root file can hold when the service is constructed
LedgerDirectives ==
    { HandEdit, OpenDirective(1, "Expenses:Food") }

\* the allocations handed to add_budget
Allocations ==
    { StandardBudget("Expenses:Food", amt, "USD", <<>>, <<>>, 1, "monthly") :
          amt \in {6, 7} }
    \cup { CustomBudget("Expenses:Food", 6, "USD", <<<<"b">>, <<"a">>>>, <<>>, 15, 20) }

(***************************************************************************)
(* BeancountService                                                         *)
(***************************************************************************)
\* what the loader reads of the included file: nothing when the root file does
\* not carry its include
IncludedFile == IF rootIncludesInc THEN incFile ELSE <<>>

\* faulty variant: the constructor marks the service loaded
LoadedAtConstructionSet == TRUE

\* __init__: self._loaded = False; the loader is not called
LoadedAtConstruction == FALSE

\* faulty variant: the property loads on every read
NeedsLoadAlways == TRUE

\* faulty variant: a freshness check by mtime that also covers the overlay
NeedsLoadTrackingOverlay ==
    ~_loaded \/ \E f \in Files : mtime[f] > mtimeAtLoad[f]

\* entries: "if not self._loaded"
NeedsLoad == ~_loaded

\* loader_func(self.filepath) raises when the root file cannot be read
LoaderRaises == rootText.stat = "unreadable"

\* load(): self._entries, ... = self.loader_func(self.filepath); self._loaded = True.
\* When loader_func raises, neither assignment is reached.
load ==
    /\ parsed' = TRUE
    /\ IF LoaderRaises
       THEN /\ error' = "OSError"
            /\ UNCHANGED <<_entries, _errors, _loaded, mtimeAtLoad>>
       ELSE /\ error' = ""
            /\ _entries' = LoadFile(rootFile, IncludedFile, overlayFile,
                                    rootIncludesOverlay)
            /\ _errors' = LoadErrors(rootFile, IncludedFile, overlayFile,
                                     rootIncludesOverlay)
            /\ _loaded' = TRUE
            /\ mtimeAtLoad' = mtime

\* the entries property: load if not loaded, then return self._entries
entries ==
    IF NeedsLoad
    THEN load
    ELSE /\ parsed' = FALSE
         /\ error' = ""
         /\ UNCHANGED <<_entries, _errors, _loaded, mtimeAtLoad>>

\* add_budget: "if allocation.created_at is None: allocation.created_at = int(time.time())"
\* faulty variant: "if not allocation.created_at", which also replaces a 0
StampedUnlessTruthy(allocation) ==
    IF allocation.created_at \in {<<>>, <<0>>}
    THEN [allocation EXCEPT !.created_at = <<now>>]
    ELSE allocation

Stamped(allocation) ==
    IF allocation.created_at = <<>>
    THEN [allocation EXCEPT !.created_at = <<now>>]
    ELSE allocation

\* add_budget: the Custom entry built from the allocation (meta, date, values)
EntryOf(allocation) ==
    BudgetDirective(
        today, allocation.account, allocation.amount, allocation.currency,
        Str(isoformat(allocation.start_date)),
        IF allocation.variant = "Standard" THEN Str(allocation.frequency[1]) ELSE NoStr,
        IF allocation.variant = "Custom"
        THEN Str(isoformat(allocation.end_date[1])) ELSE NoStr,
        IF allocation.tags # <<>> THEN Str(join(",", allocation.tags)) ELSE NoText,
        Str(StrOfInt(allocation.created_at[1])))

\* faulty variant: the overlay is opened with "w", which truncates it
AppendedOverlayTruncating(allocation) ==
    <<Chunk("\n", EntryOf(Stamped(allocation)))>>

\* add_budget: with open(self.budget_file, "a") as f: f.write("\n" + entry_string)
AppendedOverlay(allocation) ==
    Append(overlayFile, Chunk("\n", EntryOf(Stamped(allocation))))

\* faulty variant: the cache is not invalidated
LoadedAfterAddKept == _loaded

\* add_budget: self._loaded = False
LoadedAfterAdd == FALSE

\* faulty variant: a failure to open the overlay is caught and dropped
OpenErrorSwallowed == ""

\* add_budget: open(self.budget_file, "a") raises when the overlay cannot be opened
\* for appending, and nothing in add_budget catches it
OpenError == IF overlayWritable THEN "" ELSE "PermissionError"

\* add_budget: created_at is set on the argument, then the overlay is opened; when
\* that raises, nothing is written and self._loaded = False is not reached
add_budget(allocation) ==
    /\ lastArg' = <<Stamped(allocation)>>
    /\ parsed' = FALSE
    /\ error' = OpenError
    /\ IF overlayWritable
       THEN /\ overlayFile' = AppendedOverlay(allocation)
            /\ mtime' = [mtime EXCEPT !["overlay"] = @ + 1]
            /\ _loaded' = LoadedAfterAdd
       ELSE UNCHANGED <<overlayFile, mtime, _loaded>>
    /\ UNCHANGED <<rootFile, incFile, _entries, _errors, mtimeAtLoad>>

\* get_active_budgets: for entry in self.entries ... return resolved_budgets
get_active_budgets ==
    /\ entries
    /\ retBudgets' = IF error' = ""
                     THEN ResolveEntries(_entries')
                     ELSE [raised |-> TRUE, budgets |-> <<>>]

(***************************************************************************)
(* The service with its files: specification Spec                           *)
(***************************************************************************)
Init ==
    /\ rootFile \in {<<>>} \cup {<<Chunk("", d)>> : d \in LedgerDirectives}
    /\ incFile = <<>>
    /\ overlayFile = <<>>
    /\ rootIncludesOverlay \in BOOLEAN
    /\ mtime = [f \in Files |-> 0]
    /\ now = StartClock
    /\ today = DayOf(StartClock)
    /\ _entries = <<>>
    /\ _loaded = FALSE
    /\ lastOp = "init"
    /\ parsed = FALSE
    /\ lastArg = <<>>
    /\ retEntries = <<>>
    /\ retBudgets = [raised |-> FALSE, budgets |-> <<>>]
    /\ mtimeAtLoad = [f \in Files |-> 0]
    /\ edits = 0
    /\ _errors = <<>>
    /\ ret = NoRet
    /\ http = NoHttp
    /\ instances = 0
    /\ rootText = RootTextOf(rootIncludesOverlay)
    /\ budget_file = BudgetPath
    /\ SideInit

NoBudgets == [raised |-> FALSE, budgets |-> <<>>]


\* service.load()
Load ==
    /\ load
    /\ lastOp' = "load"
    /\ retEntries' = <<>>
    /\ retBudgets' = NoBudgets
    /\ UNCHANGED <<rootFile, incFile, overlayFile, rootIncludesOverlay, mtime, now,
                   today, lastArg, edits>>
    /\ UNCHANGED callVars

\* a caller reads service.entries
ReadEntries ==
    /\ entries
    /\ retEntries' = IF error' = "" THEN _entries' ELSE <<>>
    /\ lastOp' = "entries"
    /\ retBudgets' = NoBudgets
    /\ UNCHANGED <<rootFile, incFile, overlayFile, rootIncludesOverlay, mtime, now,
                   today, lastArg, edits>>
    /\ UNCHANGED callVars

\* service.get_active_budgets()
GetActiveBudgets ==
    /\ get_active_budgets
    /\ lastOp' = "get_active_budgets"
    /\ retEntries' = <<>>
    /\ UNCHANGED <<rootFile, incFile, overlayFile, rootIncludesOverlay, mtime, now,
                   today, lastArg, edits>>
    /\ UNCHANGED callVars

\* service.add_budget(allocation)
AddBudget ==
    \E allocation \in Allocations :
        /\ Len(overlayFile) < MaxAdds
        /\ add_budget(allocation)
        /\ lastOp' = "add_budget"
        /\ retEntries' = <<>>
        /\ retBudgets' = NoBudgets
        /\ UNCHANGED <<rootIncludesOverlay, now, today, edits>>
        /\ UNCHANGED callVars

\* someone edits a ledger file by hand: a directive is added, the mtime advances
EditFile ==
    \E f \in Files :
        /\ edits < MaxEdits
        /\ edits' = edits + 1
        /\ rootFile' = IF f = "root" THEN Append(rootFile, Chunk("", HandEdit)) ELSE rootFile
        /\ incFile' = IF f = "inc" THEN Append(incFile, Chunk("", HandEdit)) ELSE incFile
        /\ overlayFile' = IF f = "overlay" /\ Len(overlayFile) < MaxAdds
                          THEN Append(overlayFile, Chunk("", HandEdit)) ELSE overlayFile
        /\ mtime' = [mtime EXCEPT ![f] = @ + 1]
        /\ UNCHANGED <<rootIncludesOverlay, now, today, _entries, _loaded, lastOp,
                       parsed, lastArg, retEntries, retBudgets, mtimeAtLoad, _errors>>
        /\ UNCHANGED extVars

\* the clock reaches the next second (and, with it, possibly the next day)
Tick ==
    /\ now < StartClock + MaxTicks
    /\ now' = now + 1
    /\ today' = DayOf(now')
    /\ UNCHANGED <<rootFile, incFile, overlayFile, rootIncludesOverlay, mtime,
                   _entries, _loaded, lastOp, parsed, lastArg, retEntries,
                   retBudgets, mtimeAtLoad, edits, _errors>>
    /\ UNCHANGED extVars

Next ==
    \/ Load
    \/ ReadEntries
    \/ GetActiveBudgets
    \/ AddBudget
    \/ EditFile
    \/ Tick

Spec == Init /\ [][Next]_vars

(***************************************************************************)
(* The resolver over a ledger: specification SpecResolve                    *)
(*                                                                          *)
(* The ledger (the root file, which includes nothing) grows by one          *)
(* directive, a service is constructed over it, and get_active_budgets is   *)
(* called on that service.                                                  *)
(***************************************************************************)
Food(amt, start, freq, end, tgs, created) ==
    BudgetDirective(0, "Expenses:Food", amt, "USD", start, freq, end, tgs, created)

\* the directives a ledger of SpecResolve is written from
ResolverDirectives ==
    { \* revisions of one budget: created_at 1, 2, none, and 2 again
      Food(5, Str("2024-01-01"), Str("monthly"), NoStr, NoText, Str(<<"1">>)),
      Food(6, Str("2024-01-01"), Str("monthly"), NoStr, NoText, Str(<<"2">>)),
      Food(7, Str("2024-01-01"), Str("monthly"), NoStr, NoText, NoText),
      Food(8, Str("2024-01-01"), Str("monthly"), NoStr, NoText, Str(<<"2">>)),
      \* tags: "a,b", "b, a", "a,a", "a"
      Food(5, Str("2024-01-01"), Str("monthly"), NoStr,
           Str(<<"a", ",", "b">>), Str(<<"1">>)),
      Food(6, Str("2024-01-01"), Str("monthly"), NoStr,
           Str(<<"b", ",", " ", "a">>), Str(<<"2">>)),
      Food(5, Str("2024-01-01"), Str("monthly"), NoStr,
           Str(<<"a", ",", "a">>), Str(<<"1">>)),
      Food(6, Str("2024-01-01"), Str("monthly"), NoStr, Str(<<"a">>), Str(<<"2">>)),
      \* a repeated tag and no created_at
      Food(7, Str("2024-01-01"), Str("monthly"), NoStr, Str(<<"a", ",", "a">>), NoText),
      \* another account, start_date, frequency; a custom budget; both discriminators
      BudgetDirective(0, "Expenses:Rent", 5, "USD", Str("2024-01-01"), Str("monthly"),
                      NoStr, NoText, Str(<<"1">>)),
      Food(5, Str("2024-02-01"), Str("monthly"), NoStr, NoText, Str(<<"1">>)),
      Food(5, Str("2024-01-01"), Str("yearly"), NoStr, NoText, Str(<<"1">>)),
      Food(9, Str("2024-01-15"), NoStr, Str("2024-01-20"), NoText, Str(<<"2">>)),
      Food(9, Str("2024-01-01"), Str("monthly"), Str("2024-01-20"), NoText,
           Str(<<"3">>)),
      \* malformed metadata
      Food(5, NoStr, Str("monthly"), NoStr, NoText, Str(<<"1">>)),
      Food(5, Str("not-a-date"), Str("monthly"), NoStr, NoText, Str(<<"1">>)),
      Food(5, Str("2024-01-01"), NoStr, Str("not-a-date"), NoText, Str(<<"1">>)),
      Food(4, Str("2024-01-01"), Str("monthly"), Str("not-a-date"), NoText,
           Str(<<"3">>)),
      Food(5, Str("2024-01-01"), NoStr, NoStr, NoText, Str(<<"1">>)),
      Food(5, Str("2024-01-01"), Str("monthly"), NoStr, NoText, Str(<<"x">>)),
      \* start_date written as a date literal, without quotes
      Food(5, DateLit("2024-01-01"), Str("monthly"), NoStr, NoText, Str(<<"1">>)),
      \* an entry that is no budget
      OpenDirective(0, "Expenses:Food") }

InitResolve ==
    /\ rootFile = <<>>
    /\ incFile = <<>>
    /\ overlayFile = <<>>
    /\ rootIncludesOverlay = FALSE
    /\ mtime = [f \in Files |-> 0]
    /\ now = StartClock
    /\ today = DayOf(StartClock)
    /\ _entries = <<>>
    /\ _loaded = FALSE
    /\ lastOp = "init"
    /\ parsed = FALSE
    /\ lastArg = <<>>
    /\ retEntries = <<>>
    /\ retBudgets = NoBudgets
    /\ mtimeAtLoad = [f \in Files |-> 0]
    /\ edits = 0
    /\ _errors = <<>>
    /\ ret = NoRet
    /\ http = NoHttp
    /\ instances = 0
    /\ rootText = RootTextOf(rootIncludesOverlay)
    /\ budget_file = BudgetPath
    /\ SideInit

\* the ledger gets one more directive and BeancountService(...) is constructed
\* over it: __init__ sets _entries = [] and _loaded = False
NewLedger ==
    \E d \in ResolverDirectives :
        /\ Len(rootFile) < MaxHist
        /\ rootFile' = Append(rootFile, Chunk("", d))
        /\ _entries' = <<>>
        /\ _errors' = <<>>
        /\ _loaded' = LoadedAtConstruction
        /\ lastOp' = "init"
        /\ parsed' = FALSE
        /\ retEntries' = <<>>
        /\ retBudgets' = NoBudgets
        /\ UNCHANGED <<incFile, overlayFile, rootIncludesOverlay, mtime, now, today,
                       lastArg, mtimeAtLoad, edits>>
        /\ UNCHANGED extVars

NextResolve ==
    \/ NewLedger
    \/ GetActiveBudgets

SpecResolve == InitResolve /\ [][NextResolve]_vars

(***************************************************************************)
(* The specification's notions, read off the directives themselves          *)
(***************************************************************************)
Present(m) == m.t # "absent"

\* every metadata value of the directive is a string, as in the data model's
\* meta: map[string, string]
WellTyped(d) ==
    \A m \in {d.start_date, d.frequency, d.end_date, d.tags, d.created_at} :
        m.t \in {"absent", "str"}

\* a budget directive none of the disqualifications applies to
SpecValid(d) ==
    /\ d.kind = "budget"
    /\ WellTyped(d)
    /\ Present(d.start_date) /\ IsIsoDate(d.start_date.v)
    /\ Present(d.frequency) \/ Present(d.end_date)
    /\ Present(d.end_date) => IsIsoDate(d.end_date.v)
    /\ Present(d.frequency) => d.frequency.v \in Frequencies
    /\ Present(d.created_at) => IntParses(d.created_at.v)

\* the directives the malformed-directive rule names: start_date missing or not
\* ISO, end_date present and not ISO, neither frequency nor end_date
Malformed(d) ==
    /\ d.kind = "budget"
    /\ WellTyped(d)
    /\ \/ ~Present(d.start_date)
       \/ ~IsIsoDate(d.start_date.v)
       \/ Present(d.end_date) /\ ~IsIsoDate(d.end_date.v)
       \/ ~Present(d.frequency) /\ ~Present(d.end_date)

Elements(l) == {l[i] : i \in 1..Len(l)}

\* the normalized tag set of a directive: its tags, sorted and de-duplicated
TagSet(d) == Elements(ParseTags(d.tags.v))

\* created_at of a directive, 0 when absent
SpecCreated(d) == IF Present(d.created_at) THEN IntOf(d.created_at.v) ELSE 0

\* Resolution Key of a valid directive: (account, start_date, discriminator, tag set)
SpecKey(d) ==
    <<d.account, Calendar[d.start_date.v],
      IF Present(d.frequency) THEN <<d.frequency.v>> ELSE <<>>,
      IF Present(d.frequency) THEN <<>> ELSE <<Calendar[d.end_date.v]>>,
      TagSet(d)>>

\* Resolution Key of a returned allocation
AllocKey(b) ==
    <<b.account, b.start_date, b.frequency, b.end_date, Elements(b.tags)>>

Count(x, l) == Cardinality({i \in 1..Len(l) : l[i] = x})

IsPermutation(l, m) ==
    /\ Len(l) = Len(m)
    /\ \A x \in Elements(l) \cup Elements(m) : Count(x, l) = Count(x, m)

\* the allocation b is the typed form of the directive d
Describes(b, d) ==
    /\ b.account = d.account
    /\ b.amount = d.amount
    /\ b.currency = d.currency
    /\ b.start_date = Calendar[d.start_date.v]
    /\ b.created_at = <<SpecCreated(d)>>
    /\ Elements(b.tags) = TagSet(d)
    /\ IF Present(d.frequency)
       THEN b.variant = "Standard" /\ b.frequency = <<d.frequency.v>>
       ELSE b.variant = "Custom" /\ b.end_date = <<Calendar[d.end_date.v]>>

\* get_active_budgets was the last operation: retBudgets is its result over _entries
Resolved == lastOp = "get_active_budgets"

AllWellTyped == \A i \in 1..Len(_entries) : WellTyped(_entries[i])

ValidIdx == {i \in 1..Len(_entries) : SpecValid(_entries[i])}

BudgetIdx == {i \in 1..Len(_entries) : _entries[i].kind = "budget"}

Returned == retBudgets.budgets

MaxOf(S) == CHOOSE x \in S : \A y \in S : y <= x

(***************************************************************************)
(* Claims about the resolver (SpecResolve)                                  *)
(***************************************************************************)

NoneMalformed == \A i \in 1..Len(_entries) : ~Malformed(_entries[i])

\* C1: for every history of string-typed directives (here: none of them
\* malformed), get_active_budgets returns exactly one allocation per Resolution
\* Key (account, start_date, frequency or end_date, sorted and de-duplicated
\* tags) occurring among the valid budget directives, and its created_at is the
\* maximum over the valid directives of that key.
C1_OneWinnerPerResolutionKey ==
    (Resolved /\ AllWellTyped /\ NoneMalformed) =>
        /\ ~retBudgets.raised
        /\ \A i \in ValidIdx :
             LET ps == {p \in 1..Len(Returned) :
                            AllocKey(Returned[p]) = SpecKey(_entries[i])}
                 mx == MaxOf({SpecCreated(_entries[j]) :
                                 j \in {k \in ValidIdx :
                                         SpecKey(_entries[k]) = SpecKey(_entries[i])}})
             IN  /\ Cardinality(ps) = 1
                 /\ \A p \in ps : Returned[p].created_at = <<mx>>

\* C8: two valid budget directives whose Resolution Keys differ in any component
\* are both represented in the result of get_active_budgets whatever their
\* created_at; when they are the only budget directives, the result is exactly
\* their two allocations.
C8_DifferentKeysCoexist ==
    (Resolved /\ AllWellTyped) =>
        \A i \in ValidIdx, j \in ValidIdx :
            SpecKey(_entries[i]) # SpecKey(_entries[j]) =>
                /\ \E p \in 1..Len(Returned), q \in 1..Len(Returned) :
                       /\ p # q
                       /\ AllocKey(Returned[p]) = SpecKey(_entries[i])
                       /\ AllocKey(Returned[q]) = SpecKey(_entries[j])
                /\ BudgetIdx = {i, j} =>
                       /\ Len(Returned) = 2
                       /\ \E p \in 1..2, q \in 1..2 :
                              /\ p # q
                              /\ Describes(Returned[p], _entries[i])
                              /\ Describes(Returned[q], _entries[j])

\* C8 witness: resolved, two valid directives that differ only in their tag
\* sets and in created_at, and both are returned
C8_Witness ==
    /\ Resolved
    /\ Len(_entries) = 2
    /\ ValidIdx = {1, 2}
    /\ TagSet(_entries[1]) # TagSet(_entries[2])
    /\ _entries[1].account = _entries[2].account
    /\ SpecCreated(_entries[1]) # SpecCreated(_entries[2])
    /\ Len(Returned) = 2

SameButTagOrder(d, e) ==
    /\ d.account = e.account
    /\ d.start_date = e.start_date
    /\ Present(d.frequency) = Present(e.frequency)
    /\ IF Present(d.frequency) THEN d.frequency = e.frequency
                               ELSE d.end_date = e.end_date
    /\ IsPermutation(ParseTags(d.tags.v), ParseTags(e.tags.v))

\* C9: two valid directives equal in account, start_date and discriminator whose
\* tag lists are permutations of each other conflict: the result holds exactly
\* one allocation for them, its created_at is at least that of both, and when
\* they are the only budget directives the result is the one created later.
C9_TagOrderConflicts ==
    (Resolved /\ AllWellTyped) =>
        \A i \in ValidIdx, j \in ValidIdx :
            (i # j /\ SameButTagOrder(_entries[i], _entries[j])) =>
                LET ps == {p \in 1..Len(Returned) :
                              /\ Returned[p].account = _entries[i].account
                              /\ Returned[p].start_date
                                     = Calendar[_entries[i].start_date.v]
                              /\ AllocKey(Returned[p])[3] = SpecKey(_entries[i])[3]
                              /\ AllocKey(Returned[p])[4] = SpecKey(_entries[i])[4]
                              /\ IsPermutation(Returned[p].tags,
                                               ParseTags(_entries[i].tags.v))}
                IN  /\ Cardinality(ps) = 1
                    /\ \A p \in ps :
                          /\ Returned[p].created_at[1] >= SpecCreated(_entries[i])
                          /\ Returned[p].created_at[1] >= SpecCreated(_entries[j])
                    /\ (/\ BudgetIdx = {i, j}
                        /\ SpecCreated(_entries[i]) > SpecCreated(_entries[j])) =>
                           /\ Len(Returned) = 1
                           /\ Describes(Returned[1], _entries[i])

\* C9 witness: resolved over "a,b" created first and "b, a" created later, as
\* the only directives; one allocation is returned
C9_Witness ==
    /\ Resolved
    /\ Len(_entries) = 2
    /\ ValidIdx = {1, 2}
    /\ SameButTagOrder(_entries[1], _entries[2])
    /\ ParseTags(_entries[1].tags.v) # ParseTags(_entries[2].tags.v)
    /\ SpecCreated(_entries[2]) > SpecCreated(_entries[1])
    /\ Len(Returned) = 1

WithoutMalformed(l) == SelectSeq(l, LAMBDA d : ~Malformed(d))

\* C10: a budget directive with a missing start_date, a start_date or end_date
\* that is not ISO-parseable, or neither frequency nor end_date never makes
\* get_active_budgets raise, and the result equals the result over the history
\* with the malformed directives removed.
C10_MalformedDirectivesDropped ==
    (Resolved /\ AllWellTyped) =>
        /\ ~retBudgets.raised
        /\ Returned = ResolveEntries(WithoutMalformed(_entries)).budgets

(***************************************************************************)
(* Claims about the cache and the writer (Spec)                             *)
(***************************************************************************)
AccessOps == {"entries", "get_active_budgets"}

\* a step of the service, not of the clock or of an editor
ServiceStep == edits' = edits /\ now' = now

\* a step in which the entries property is read
AccessStep == ServiceStep /\ lastOp' \in AccessOps

\* a step in which add_budget runs
AddStep == ServiceStep /\ lastOp' = "add_budget"

\* the files the freshness snapshot covers: the root file and what it includes,
\* the overlay excepted
Tracked == {"root", "inc"}

TrackedAdvanced == \E f \in Tracked : mtime[f] > mtimeAtLoad[f]

OverlayAdvanced == mtime["overlay"] > mtimeAtLoad["overlay"]

\* the chunks of the overlay that add_budget wrote
Written == {i \in 1..Len(overlayFile) : overlayFile[i].lead = "\n"}

LastWritten == overlayFile[MaxOf(Written)].entry

\* C2: after any sequence of add_budget calls with created_at unset (overlay
\* included by the root file), get_active_budgets returns, for each Resolution
\* Key, the allocation recorded by the last call for that key, also when two
\* calls fall into the same clock second.
C2_LastCallWins ==
    (Resolved /\ rootIncludesOverlay) =>
        \A i \in Written :
            (\A j \in Written :
                 j > i => SpecKey(overlayFile[j].entry) # SpecKey(overlayFile[i].entry))
            => \E p \in 1..Len(Returned) :
                   /\ Describes(Returned[p], overlayFile[i].entry)
                   /\ \A q \in 1..Len(Returned) :
                          AllocKey(Returned[q]) = SpecKey(overlayFile[i].entry) => q = p

\* C3: when add_budget was the last operation, the next read of entries invokes
\* the loader whatever the mtimes are, and what it returns contains the
\* directive add_budget appended if the root file includes the overlay.
C3_ReadAfterAddReparses ==
    [][(lastOp = "add_budget" /\ AccessStep) =>
          /\ parsed'
          /\ _loaded'
          /\ lastOp' = "entries" => retEntries' = _entries'
          /\ rootIncludesOverlay =>
                 \E i \in 1..Len(_entries') : _entries'[i] = LastWritten]_vars

\* C3 witness: a read of entries right after add_budget parsed, although the
\* overlay is not what made it stale, and returned the appended directive
C3_Witness ==
    /\ lastOp = "entries"
    /\ parsed
    /\ lastArg # <<>>
    /\ rootIncludesOverlay
    /\ Written # {}
    /\ \E i \in 1..Len(retEntries) : retEntries[i] = LastWritten

\* C4: once loaded, a read of entries with no tracked file's mtime changed and
\* no add_budget since the load does not invoke the loader and returns the
\* cached entries as they were.
C4_NoReloadWhenUnchanged ==
    [][(_loaded /\ ~TrackedAdvanced /\ AccessStep) =>
          /\ ~parsed'
          /\ _entries' = _entries
          /\ lastOp' = "entries" => retEntries' = _entries]_vars

\* C4 witness: a read served from the cache, with nothing tracked changed
C4_Witness ==
    /\ lastOp = "entries"
    /\ _loaded
    /\ ~parsed
    /\ ~TrackedAdvanced
    /\ _entries # <<>>
    /\ retEntries = _entries

\* C5: once loaded, if the mtime of the root file or of an included file has
\* advanced past the value recorded at the load, the next read of entries
\* invokes the loader and returns the newly parsed entries.
C5_ReloadOnTrackedChange ==
    [][(_loaded /\ TrackedAdvanced /\ AccessStep) =>
          /\ parsed'
          /\ _entries' = LoadFile(rootFile, incFile, overlayFile,
                                  rootIncludesOverlay)]_vars

\* C6: once loaded, a change of only the overlay file (mtime or content) made
\* outside add_budget does not make the next read of entries invoke the loader.
C6_OverlayNotTracked ==
    [][(_loaded /\ OverlayAdvanced /\ ~TrackedAdvanced /\ AccessStep) =>
          /\ ~parsed'
          /\ _entries' = _entries]_vars

\* C6 witness: a read served from the cache although the overlay was edited
\* since the load
C6_Witness ==
    /\ lastOp \in AccessOps
    /\ _loaded
    /\ ~parsed
    /\ OverlayAdvanced
    /\ ~TrackedAdvanced
    /\ \E i \in 1..Len(overlayFile) : overlayFile[i].lead = ""

\* C7: every add_budget leaves the overlay as it was, followed by a newline and
\* the one directive serialized from its allocation, and writes neither the
\* root file nor the included file.
C7_AppendOnly ==
    [][AddStep =>
          /\ lastArg' # <<>>
          /\ overlayFile' = Append(overlayFile,
                                   Chunk("\n", EntryOf(lastArg'[1])))
          /\ rootFile' = rootFile
          /\ incFile' = incFile]_vars

\* C7 witness: after two calls the overlay holds both directives in call order
C7_Witness ==
    /\ lastOp = "add_budget"
    /\ Written = {1, 2}
    /\ Len(overlayFile) = 2
    /\ overlayFile[2].entry = EntryOf(lastArg[1])
    /\ overlayFile[1].entry # overlayFile[2].entry

(***************************************************************************)
(* Claims about created_at and the discriminator (SpecResolve)              *)
(***************************************************************************)

\* the valid directives that share the Resolution Key of directive i
KeyMates(i) == {j \in ValidIdx : SpecKey(_entries[j]) = SpecKey(_entries[i])}

\* C11: a valid budget directive without created_at counts as created at 0: when
\* it is returned its allocation carries created_at 0, and when a valid directive
\* of the same Resolution Key with a positive created_at stands anywhere in the
\* history (before or after it), no returned allocation is the typed form of the
\* directive without created_at.
C11_MissingCreatedAtLoses ==
    (Resolved /\ AllWellTyped) =>
        \A i \in ValidIdx :
            ~Present(_entries[i].created_at) =>
                /\ \A p \in 1..Len(Returned) :
                       Describes(Returned[p], _entries[i]) =>
                           Returned[p].created_at = <<0>>
                /\ (\E j \in KeyMates(i) : SpecCreated(_entries[j]) > 0) =>
                       \A p \in 1..Len(Returned) :
                           ~Describes(Returned[p], _entries[i])

\* the returned allocations for the account, start_date and tag set of directive d
SameBudgetSlot(d) ==
    {p \in 1..Len(Returned) :
        /\ Returned[p].account = d.account
        /\ Returned[p].start_date = Calendar[d.start_date.v]
        /\ Elements(Returned[p].tags) = TagSet(d)}

\* C12: a valid budget directive carrying both frequency and end_date is resolved
\* as a StandardBudget with that frequency and without end_date: alone it is
\* returned as exactly that; in any history its key is represented by exactly one
\* Standard allocation of that frequency, shared with the directives that have
\* the same account, start_date, tags and frequency and no end_date (so the
\* frequency is the discriminator), and no Custom allocation with its end_date is
\* returned unless a directive without frequency asks for it.
C12_BothDiscriminatorsStandard ==
    (Resolved /\ AllWellTyped) =>
        \A i \in ValidIdx :
            LET d == _entries[i]
                std == {p \in SameBudgetSlot(d) :
                           /\ Returned[p].variant = "Standard"
                           /\ Returned[p].frequency = <<d.frequency.v>>
                           /\ Returned[p].end_date = <<>>}
            IN  (Present(d.frequency) /\ Present(d.end_date)) =>
                    /\ Cardinality(std) = 1
                    /\ \A p \in std :
                           Returned[p].created_at[1]
                               = MaxOf({SpecCreated(_entries[j]) : j \in KeyMates(i)})
                    /\ BudgetIdx = {i} =>
                           /\ Len(Returned) = 1
                           /\ Describes(Returned[1], d)
                    /\ \A p \in SameBudgetSlot(d) :
                           Returned[p].variant = "Custom" =>
                               \E j \in ValidIdx :
                                   /\ ~Present(_entries[j].frequency)
                                   /\ SpecKey(_entries[j]) = AllocKey(Returned[p])

\* C12 witness: resolved; a directive with both frequency and end_date and a later
\* revision of the same budget that has the frequency only; one Standard
\* allocation is returned for the two
C12_Witness ==
    /\ Resolved
    /\ Len(_entries) = 2
    /\ ValidIdx = {1, 2}
    /\ Present(_entries[1].frequency) /\ Present(_entries[1].end_date)
    /\ Present(_entries[2].frequency) /\ ~Present(_entries[2].end_date)
    /\ SpecKey(_entries[1]) = SpecKey(_entries[2])
    /\ Len(Returned) = 1
    /\ Returned[1].variant = "Standard"
    /\ Describes(Returned[1], _entries[1])

(***************************************************************************)
(* The other readers of the service: get_transactions and get_accounts      *)
(*                                                                          *)
(* An account name is the tuple of its components and the ":" between them. *)
(***************************************************************************)
\* a Transaction entry with one posting
TxnDirective(d, payee, acc, units) ==
    [kind |-> "txn", date |-> d, payee |-> payee, narration |-> "n", flag |-> "*",
     postings |-> <<[account |-> acc, units |-> units, currency |-> "USD"]>>]

\* an Open entry with its currencies
Open(d, acc, currencies) ==
    [kind |-> "open", date |-> d, account |-> acc, currencies |-> currencies]

\* a Close entry
Close(d, acc) == [kind |-> "close", date |-> d, account |-> acc]

\* text of the ledger that the parser rejects
Unparsable(d) == [kind |-> "unparsable", date |-> d]

\* the DomainTransaction built from a Transaction entry
DomainTransaction(entry) ==
    [date |-> entry.date, payee |-> entry.payee, narration |-> entry.narration,
     flag |-> entry.flag,
     postings |-> [i \in 1..Len(entry.postings) |->
                      [account |-> entry.postings[i].account,
                       units |-> entry.postings[i].units,
                       currency |-> entry.postings[i].currency]]]

\* "if start_date and entry.date < start_date: continue" and
\* "if end_date and entry.date > end_date: continue"
KeptByDates(entry, start_date, end_date) ==
    /\ ~(start_date # <<>> /\ entry.date < start_date[1])
    /\ ~(end_date # <<>> /\ entry.date > end_date[1])

\* get_transactions(start_date, end_date) over the entries
get_transactions(ents, start_date, end_date) ==
    LET kept == SelectSeq(ents, LAMBDA e : e.kind = "txn"
                                           /\ KeptByDates(e, start_date, end_date))
    IN  [i \in 1..Len(kept) |-> DomainTransaction(kept[i])]

\* the keys of open_accounts in insertion order
RECURSIVE OpenNames(_)
OpenNames(ents) ==
    IF ents = <<>> THEN <<>>
    ELSE LET before == OpenNames(SubSeq(ents, 1, Len(ents) - 1))
             e == ents[Len(ents)]
         IN  IF e.kind = "open" /\ \A i \in 1..Len(before) : before[i] # e.account
             THEN Append(before, e.account)
             ELSE before

\* open_accounts[name]: the last Open entry of that name
OpenDirectiveOf(ents, name) ==
    LET idx == {i \in 1..Len(ents) : ents[i].kind = "open" /\ ents[i].account = name}
    IN  ents[CHOOSE i \in idx : \A j \in idx : j <= i]

\* closed_accounts
ClosedAccounts(ents) ==
    {ents[i].account : i \in {j \in 1..Len(ents) : ents[j].kind = "close"}}

\* faulty variant: nothing counts as closed
NotClosedNever(ents, name) == TRUE

\* if name not in closed_accounts
NotClosed(ents, name) == name \notin ClosedAccounts(ents)

\* Account(name=name, type=name.split(":")[0], currency=...)
Account(ents, name) ==
    LET od == OpenDirectiveOf(ents, name)
    IN  [name |-> name,
         type |-> split(name, ":")[1],
         currency |-> IF od.currencies # <<>> THEN od.currencies[1] ELSE "USD"]

\* get_accounts() over the entries
get_accounts(ents) ==
    LET names == SelectSeq(OpenNames(ents), LAMBDA n : NotClosed(ents, n))
    IN  [i \in 1..Len(names) |-> Account(ents, names[i])]

(***************************************************************************)
(* The HTTP routes: specification SpecApi                                   *)
(*                                                                          *)
(* The root file, which includes the overlay, grows by hand; every request  *)
(* is served by the BeancountService that the dependency                    *)
(* get_beancount_service hands to the route.                                *)
(***************************************************************************)
Expenses == <<"Expenses">>

ExpensesFood == <<"Expenses", ":", "Food">>

ExpensesRent == <<"Expenses", ":", "Rent">>

\* what the root file of SpecApi is written from
ApiDirectives ==
    { BudgetDirective(0, Expenses, 10, "USD", Str("2024-01-01"), Str("monthly"),
                      NoStr, NoText, Str(<<"1">>)),
      BudgetDirective(0, ExpensesRent, 6, "USD", Str("2024-01-01"), Str("monthly"),
                      NoStr, NoText, Str(<<"1">>)),
      BudgetDirective(0, ExpensesFood, 9, "USD", Str("2024-01-15"), NoStr,
                      Str("2024-01-20"), NoText, Str(<<"1">>)),
      BudgetDirective(0, ExpensesFood, 2, "USD", Str("2024-02-01"), Str("monthly"),
                      NoStr, NoText, Str(<<"1">>)),
      TxnDirective(15, "JanMid", ExpensesFood, 20) }

\* the bodies of POST /budgets
ApiAllocations ==
    { StandardBudget(ExpensesFood, amt, "USD", <<>>, <<>>, 1, "monthly") :
          amt \in {3, 5} }

\* the dates a query parameter can carry; <<>> when the parameter is absent
QueryDates == {<<>>, <<15>>, <<32>>}

\* s.startswith(prefix)
startswith(s, prefix) ==
    Len(prefix) <= Len(s) /\ SubSeq(s, 1, Len(prefix)) = prefix

\* sum(b.amount for b in budgets)
RECURSIVE SumAmounts(_)
SumAmounts(budgets) ==
    IF budgets = <<>> THEN 0 ELSE Head(budgets).amount + SumAmounts(Tail(budgets))

\* create_budget: standard_budgets
StandardBudgets(existing) == SelectSeq(existing, LAMBDA b : b.variant = "Standard")

\* create_budget: parent_name, or <<>> for an account without parent
ParentName(acc) ==
    LET parts == split(acc, ":")
    IN  join(":", SubSeq(parts, 1, Len(parts) - 1))

\* create_budget: siblings
Siblings(allocation, standard) ==
    SelectSeq(standard,
              LAMBDA b : /\ startswith(b.account, ParentName(allocation.account) \o <<":">>)
                         /\ Len(split(b.account, ":")) = Len(split(allocation.account, ":"))
                         /\ b.account # allocation.account)

\* create_budget, "1. Child Check": a parent budget exists and
\* allocation.amount > available
ExceedsParent(allocation, existing) ==
    LET standard == StandardBudgets(existing)
        parents == SelectSeq(standard,
                             LAMBDA b : b.account = ParentName(allocation.account))
    IN  /\ Len(split(allocation.account, ":")) > 1
        /\ parents # <<>>
        /\ allocation.amount
               > Head(parents).amount - SumAmounts(Siblings(allocation, standard))

\* faulty variant: the prefix of a child's name lacks the ":"
ChildPrefixBare(acc) == acc

\* create_budget: allocation.account + ":"
ChildPrefix(acc) == acc \o <<":">>

\* create_budget, "2. Parent Check": children
Children(allocation, standard) ==
    SelectSeq(standard,
              LAMBDA b : /\ startswith(b.account, ChildPrefix(allocation.account))
                         /\ Len(split(b.account, ":"))
                                = Len(split(allocation.account, ":")) + 1)

\* the locals of create_budget when it reaches service.add_budget: parent_budget,
\* siblings, siblings_used and available are bound when a parent budget was
\* found, children_sum when there are children (<<>> stands for unbound)
Validation(allocation, existing) ==
    LET standard == StandardBudgets(existing)
        parents == SelectSeq(standard,
                             LAMBDA b : b.account = ParentName(allocation.account))
        found == Len(split(allocation.account, ":")) > 1 /\ parents # <<>>
        siblings == Siblings(allocation, standard)
        children == Children(allocation, standard)
    IN  [checked |-> TRUE,
         standard_budgets |-> standard,
         parent_budget |-> IF found THEN <<Head(parents)>> ELSE <<>>,
         siblings |-> IF found THEN <<siblings>> ELSE <<>>,
         siblings_used |-> IF found THEN <<SumAmounts(siblings)>> ELSE <<>>,
         available |-> IF found THEN <<Head(parents).amount - SumAmounts(siblings)>>
                       ELSE <<>>,
         children |-> children,
         children_sum |-> IF children # <<>> THEN <<SumAmounts(children)>> ELSE <<>>]

\* faulty variant: the rejection of the child check is in force
RejectedWhenExceeding(allocation, existing) == ExceedsParent(allocation, existing)

\* create_budget: both "raise HTTPException(status_code=400, ...)" are commented
\* out, so no allocation is rejected
Rejected(allocation, existing) == FALSE

\* what the loader makes of the files now
FreshEntries == LoadFile(rootFile, incFile, overlayFile, rootIncludesOverlay)

FreshErrors == LoadErrors(rootFile, incFile, overlayFile, rootIncludesOverlay)

\* an HTTP exchange
Http(route, query, status, detail, body, instance) ==
    [route |-> route, query |-> query, status |-> status, detail |-> detail,
     body |-> body, instance |-> instance]

InitApi ==
    /\ rootFile = <<>>
    /\ incFile = <<>>
    /\ overlayFile = <<>>
    /\ rootIncludesOverlay = TRUE
    /\ mtime = [f \in Files |-> 0]
    /\ now = StartClock
    /\ today = DayOf(StartClock)
    /\ _entries = <<>>
    /\ _loaded = FALSE
    /\ lastOp = "init"
    /\ parsed = FALSE
    /\ lastArg = <<>>
    /\ retEntries = <<>>
    /\ retBudgets = NoBudgets
    /\ mtimeAtLoad = [f \in Files |-> 0]
    /\ edits = 0
    /\ _errors = <<>>
    /\ ret = NoRet
    /\ http = NoHttp
    /\ instances = 0
    /\ rootText = RootTextOf(TRUE)
    /\ budget_file = BudgetPath
    /\ SideInit

\* someone adds a directive to the root file
WriteLedger ==
    \E d \in ApiDirectives :
        /\ Len(rootFile) < MaxLedger
        /\ rootFile' = Append(rootFile, Chunk("", d))
        /\ mtime' = [mtime EXCEPT !["root"] = @ + 1]
        /\ UNCHANGED <<incFile, overlayFile, rootIncludesOverlay, now, today, _entries,
                       _loaded, lastOp, parsed, lastArg, retEntries, retBudgets,
                       mtimeAtLoad, edits, _errors>>
        /\ UNCHANGED extVars

\* what a request leaves of the service it was handed, when the handler read
\* its entries
ServedLoaded ==
    /\ _entries' = FreshEntries
    /\ _errors' = FreshErrors
    /\ parsed' = TRUE
    /\ mtimeAtLoad' = mtime

\* ... and when the handler never read them
ServedUnloaded ==
    /\ _entries' = <<>>
    /\ _errors' = <<>>
    /\ parsed' = FALSE
    /\ mtimeAtLoad' = mtimeAtLoad

\* get_beancount_service(): return BeancountService(settings.beancount_file,
\* settings.budget_file); the number of the instance it returns
get_beancount_service == instances + 1

\* what every request does: it is handed a service, and the returns of direct
\* calls are forgotten
Request ==
    /\ instances < MaxRequests
    /\ instances' = get_beancount_service
    /\ lastOp' = "http"
    /\ retEntries' = <<>>
    /\ retBudgets' = NoBudgets
    /\ ret' = NoRet
    /\ UNCHANGED <<rootFile, incFile, rootIncludesOverlay, now, today, edits, rootText,
                   budget_file, error, sideVars>>

\* create_budget(allocation), served by a new service
create_budget(allocation) ==
    LET existing == ResolveEntries(FreshEntries)
        checked == allocation.variant = "Standard"
    IN  /\ Request
        /\ Len(overlayFile) < MaxAdds
        /\ IF checked THEN ServedLoaded ELSE ServedUnloaded
        /\ IF checked /\ existing.raised
           THEN /\ http' = Http("POST /budgets", <<allocation>>, 500, "", <<>>,
                                 get_beancount_service)
                /\ validation' = NoValidation
                /\ _loaded' = TRUE
                /\ lastArg' = <<>>
                /\ UNCHANGED <<overlayFile, mtime>>
           ELSE IF checked /\ Rejected(allocation, existing.budgets)
           THEN /\ http' = Http("POST /budgets", <<allocation>>, 400,
                                 "Exceeds parent budget", <<>>, get_beancount_service)
                /\ validation' = Validation(allocation, existing.budgets)
                /\ _loaded' = TRUE
                /\ lastArg' = <<>>
                /\ UNCHANGED <<overlayFile, mtime>>
           ELSE /\ validation' = IF checked
                                  THEN Validation(allocation, existing.budgets)
                                  ELSE NoValidation
                /\ overlayFile' = AppendedOverlay(allocation)
                /\ mtime' = [mtime EXCEPT !["overlay"] = @ + 1]
                /\ _loaded' = LoadedAfterAdd
                /\ lastArg' = <<Stamped(allocation)>>
                /\ http' = Http("POST /budgets", <<allocation>>, 200, "",
                                 <<"ok">>, get_beancount_service)

\* POST /budgets
PostBudgets == \E allocation \in ApiAllocations : create_budget(allocation)

\* GET /budgets: get_budgets(date, start_date, end_date)
GetBudgets ==
    \E date \in QueryDates, start_date \in QueryDates, end_date \in QueryDates :
        LET s_date == IF date # <<>> THEN date ELSE start_date
            e_date == IF date # <<>> THEN date ELSE end_date
            resolved == ResolveEntries(FreshEntries)
        IN  /\ Request
            /\ ServedLoaded
            /\ _loaded' = TRUE
            /\ lastArg' = <<>>
            /\ validation' = NoValidation
            /\ UNCHANGED <<overlayFile, mtime>>
            /\ http' = IF resolved.raised
                       THEN Http("GET /budgets", <<date, start_date, end_date>>, 500, "",
                                 <<>>, get_beancount_service)
                       ELSE Http("GET /budgets", <<date, start_date, end_date>>, 200, "",
                                 resolved.budgets, get_beancount_service)

\* GET /transactions: get_transactions(from_date, to_date, account) calls
\* service.get_transactions(start_date=..., end_date=..., account_name=account),
\* a keyword the method does not have: TypeError, answered with status 500
GetTransactions ==
    \E from_date \in QueryDates, to_date \in QueryDates :
        /\ Request
        /\ ServedUnloaded
        /\ _loaded' = FALSE
        /\ lastArg' = <<>>
        /\ validation' = NoValidation
        /\ UNCHANGED <<overlayFile, mtime>>
        /\ http' = Http("GET /transactions", <<from_date, to_date>>, 500, "", <<>>,
                         get_beancount_service)

\* GET /accounts: get_accounts()
GetAccounts ==
    /\ Request
    /\ ServedLoaded
    /\ _loaded' = TRUE
    /\ lastArg' = <<>>
    /\ validation' = NoValidation
    /\ UNCHANGED <<overlayFile, mtime>>
    /\ http' = Http("GET /accounts", <<>>, 200, "", get_accounts(FreshEntries),
                     get_beancount_service)

NextApi ==
    \/ WriteLedger
    \/ PostBudgets
    \/ GetBudgets
    \/ GetTransactions
    \/ GetAccounts

SpecApi == InitApi /\ [][NextApi]_vars

(***************************************************************************)
(* Claims about the routes (SpecApi)                                        *)
(***************************************************************************)
\* a request was served in this step, on this route
Served(route) == instances' = instances + 1 /\ http'.route = route

\* C13: POST /budgets with a Standard allocation whose amount plus the active
\* sibling Standard allocations exceeds the active Standard allocation of the
\* parent account is answered with status 400 and a detail that contains
\* "Exceeds parent budget", and nothing is appended to the overlay.
C13_ExceedsParentRejected ==
    [][(/\ Served("POST /budgets")
        /\ http'.query[1].variant = "Standard"
        /\ ExceedsParent(http'.query[1], ResolveEntries(FreshEntries).budgets))
       => (/\ http'.status = 400
           /\ http'.detail = "Exceeds parent budget"
           /\ overlayFile' = overlayFile)]_vars

\* C14: get_beancount_service returns the same BeancountService on every call:
\* every request is served by the instance that served the first one.
C14_SameInstanceEveryCall ==
    http.route # "none" => http.instance = 1

\* the range a GET /budgets asks for: date, when given, stands for both ends
QueryStart(query) == IF query[1] # <<>> THEN query[1] ELSE query[2]

QueryEnd(query) == IF query[1] # <<>> THEN query[1] ELSE query[3]

\* the validity window of an allocation, from start_date to end_date for a
\* CustomBudget and from start_date onwards for a StandardBudget, overlaps the
\* range from s to e (an absent end of the range is unbounded)
Overlaps(b, s, e) ==
    /\ e # <<>> => b.start_date <= e[1]
    /\ (s # <<>> /\ b.variant = "Custom") => b.end_date[1] >= s[1]

\* C17: the budgets GET /budgets returns all have a validity window that
\* overlaps the range asked for; with a date parameter, all are active on that day.
C17_DateFilterApplied ==
    (http.route = "GET /budgets" /\ http.status = 200) =>
        \A p \in 1..Len(http.body) :
            Overlaps(http.body[p], QueryStart(http.query), QueryEnd(http.query))

\* from_date <= d <= to_date, an absent bound being unbounded
InRange(d, from_date, to_date) ==
    /\ from_date # <<>> => from_date[1] <= d
    /\ to_date # <<>> => d <= to_date[1]

\* the transactions of the ledger within the range, in ledger order
TransactionsInRange(ents, from_date, to_date) ==
    LET kept == SelectSeq(ents, LAMBDA e : e.kind = "txn"
                                           /\ InRange(e.date, from_date, to_date))
    IN  [i \in 1..Len(kept) |-> DomainTransaction(kept[i])]

\* C20: GET /transactions answers with status 200 and, in ledger order, exactly
\* the transactions whose date lies between from_date and to_date, both
\* inclusive; all transactions when neither is given.
C20_TransactionsInRange ==
    http.route = "GET /transactions" =>
        /\ http.status = 200
        /\ http.body = TransactionsInRange(FreshEntries, http.query[1], http.query[2])

(***************************************************************************)
(* The readers over a ledger held in memory: specification SpecLedger       *)
(*                                                                          *)
(* As in the tests, BeancountService(content, budget_file="dummy.bean",     *)
(* loader_func=loader.load_string): the ledger gets one more entry, a       *)
(* service is constructed over it, and its readers are called.              *)
(***************************************************************************)
AssetsCash == <<"Assets", ":", "Cash">>

\* what a ledger of SpecLedger is written from
LedgerEntries ==
    { TxnDirective(1, "JanFirst", ExpensesFood, 10),
      TxnDirective(15, "JanMid", ExpensesFood, 20),
      TxnDirective(32, "FebFirst", ExpensesFood, 30),
      Open(1, AssetsCash, <<"CAD">>),
      Open(15, AssetsCash, <<>>),
      Open(1, ExpensesFood, <<>>),
      Close(32, AssetsCash),
      Close(0, ExpensesFood),
      Unparsable(0),
      BudgetDirective(0, ExpensesFood, 5, "USD", Str("2024-01-01"), Str("monthly"),
                      NoStr, NoText, Str(<<"1">>)) }

InitLedger ==
    /\ rootFile = <<>>
    /\ incFile = <<>>
    /\ overlayFile = <<>>
    /\ rootIncludesOverlay = FALSE
    /\ mtime = [f \in Files |-> 0]
    /\ now = StartClock
    /\ today = DayOf(StartClock)
    /\ _entries = <<>>
    /\ _loaded = FALSE
    /\ lastOp = "init"
    /\ parsed = FALSE
    /\ lastArg = <<>>
    /\ retEntries = <<>>
    /\ retBudgets = NoBudgets
    /\ mtimeAtLoad = [f \in Files |-> 0]
    /\ edits = 0
    /\ _errors = <<>>
    /\ ret = NoRet
    /\ http = NoHttp
    /\ instances = 0
    /\ rootText = RootTextOf(FALSE)
    /\ budget_file = BudgetPath
    /\ SideInit

\* the ledger gets one more entry and BeancountService(...) is constructed over it
NewBook ==
    \E d \in LedgerEntries :
        /\ Len(rootFile) < MaxHist
        /\ rootFile' = Append(rootFile, Chunk("", d))
        /\ _entries' = <<>>
        /\ _errors' = <<>>
        /\ _loaded' = LoadedAtConstruction
        /\ lastOp' = "init"
        /\ parsed' = FALSE
        /\ retEntries' = <<>>
        /\ retBudgets' = NoBudgets
        /\ ret' = NoRet
        /\ UNCHANGED <<incFile, overlayFile, rootIncludesOverlay, mtime, now, today,
                       lastArg, mtimeAtLoad, edits, http, instances, rootText,
                       budget_file, error, validation, sideVars>>

\* what a reader returned: it did not raise, and this is the value
Returns(op, args, value) ==
    [op |-> op, args |-> args, raised |-> FALSE, value |-> value]

\* a reader raised what the entries property raised
Raises(op, args) == [op |-> op, args |-> args, raised |-> TRUE, value |-> <<>>]

\* service.get_transactions(start_date, end_date)
CallGetTransactions ==
    \E start_date \in QueryDates, end_date \in QueryDates :
        /\ entries
        /\ ret' = IF error' = ""
                  THEN Returns("get_transactions", <<start_date, end_date>>,
                               get_transactions(_entries', start_date, end_date))
                  ELSE Raises("get_transactions", <<start_date, end_date>>)
        /\ lastOp' = "get_transactions"
        /\ retEntries' = <<>>
        /\ retBudgets' = NoBudgets
        /\ UNCHANGED <<rootFile, incFile, overlayFile, rootIncludesOverlay, mtime, now,
                       today, lastArg, edits, http, instances, rootText, budget_file,
                       validation, sideVars>>

\* service.get_accounts()
CallGetAccounts ==
    /\ entries
    /\ ret' = IF error' = ""
              THEN Returns("get_accounts", <<>>, get_accounts(_entries'))
              ELSE Raises("get_accounts", <<>>)
    /\ lastOp' = "get_accounts"
    /\ retEntries' = <<>>
    /\ retBudgets' = NoBudgets
    /\ UNCHANGED <<rootFile, incFile, overlayFile, rootIncludesOverlay, mtime, now,
                   today, lastArg, edits, http, instances, rootText, budget_file,
                   validation, sideVars>>

NextLedger ==
    \/ NewBook
    \/ ReadEntries
    \/ GetActiveBudgets
    \/ CallGetTransactions
    \/ CallGetAccounts

SpecLedger == InitLedger /\ [][NextLedger]_vars

(***************************************************************************)
(* Claims about the readers (SpecLedger)                                    *)
(***************************************************************************)
ReadOps == {"entries", "get_transactions", "get_accounts", "get_active_budgets"}

\* the ledger's text holds something the parser reports an error for
LedgerHasParseError ==
    \E i \in 1..Len(rootFile) : rootFile[i].entry.kind = "unparsable"

\* the last operation raised instead of returning
ReadRaised ==
    \/ lastOp = "get_active_budgets" /\ retBudgets.raised
    \/ lastOp \in {"get_transactions", "get_accounts"} /\ ret.raised

\* C15: when the parser reports an error for the ledger, a read operation
\* (entries, get_transactions, get_accounts, get_active_budgets) raises for its
\* caller instead of returning.
C15_ParseErrorIsHardError ==
    (lastOp \in ReadOps /\ LedgerHasParseError) => ReadRaised

\* a reader ran in this step
ReadStep == lastOp' \in ReadOps /\ rootFile' = rootFile

\* C16: over a ledger held in memory (no filesystem path), every access to the
\* entries invokes the loader again: none is served from the cache.
C16_InMemoryReloadsEveryAccess ==
    [][ReadStep => parsed']_vars

\* the account names with an Open entry, and those with a Close entry, in the ledger
OpenedInLedger ==
    {rootFile[i].entry.account :
        i \in {j \in 1..Len(rootFile) : rootFile[j].entry.kind = "open"}}

ClosedInLedger ==
    {rootFile[i].entry.account :
        i \in {j \in 1..Len(rootFile) : rootFile[j].entry.kind = "close"}}

\* C19: get_accounts returns exactly one Account for each account name that has
\* an Open entry and no Close entry in the ledger, and no other Account,
\* wherever in the ledger and at whatever dates the entries stand.
C19_OpenAndNotClosed ==
    lastOp = "get_accounts" =>
        /\ ~ret.raised
        /\ \A n \in OpenedInLedger \ ClosedInLedger :
               Cardinality({i \in 1..Len(ret.value) : ret.value[i].name = n}) = 1
        /\ \A i \in 1..Len(ret.value) :
               ret.value[i].name \in OpenedInLedger \ ClosedInLedger

\* C19 witness: get_accounts ran over a ledger that closes an account before the
\* line that opens it, opens that account twice or opens another one, and one
\* Account is returned
C19_Witness ==
    /\ lastOp = "get_accounts"
    /\ Len(rootFile) = 3
    /\ rootFile[1].entry.kind = "close"
    /\ rootFile[2].entry.kind = "open"
    /\ rootFile[2].entry.account = rootFile[1].entry.account
    /\ rootFile[3].entry.kind = "open"
    /\ rootFile[3].entry.account # rootFile[1].entry.account
    /\ Len(ret.value) = 1
    /\ ret.value[1].name = rootFile[3].entry.account

(***************************************************************************)
(* check_budget_include: specification SpecInclude                          *)
(*                                                                          *)
(* The text of the root file is edited line by line, the file is removed,   *)
(* made unreadable or restored, services are constructed with one budget    *)
(* file or another, and check_budget_include is called.                     *)
(***************************************************************************)
\* the budget files a service is constructed with: next to the root file, in a
\* directory below it, in the directory above it
BudgetPaths ==
    { BudgetPath, <<"data", "sub", "budgets.beancount">>, <<"budgets.beancount">> }

\* the lines the root file is written from
RootLines ==
    { IncludeText(<<"budgets.beancount">>),
      IncludeText(<<"sub", "budgets.beancount">>),
      IncludeText(<<"data", "budgets.beancount">>),
      <<";", " ">> \o IncludeText(<<"budgets.beancount">>),
      <<"option", " ", "\"", "title", "\"">> }

\* f.read(): the lines, each ended by a newline
content(lines) == join("\n", lines) \o (IF lines = <<>> THEN <<>> ELSE <<"\n">>)

\* needle in text
Contains(text, needle) ==
    \E i \in 1..(Len(text) - Len(needle) + 1) :
        SubSeq(text, i, i + Len(needle) - 1) = needle

\* rel_path = os.path.relpath(self.budget_file, main_dir);
\* expected_directive = f'include "{rel_path}"'
ExpectedDirective(budget) == IncludeText(relpath(budget, dirname(RootPath)))

\* check_budget_include()
check_budget_include ==
    IF rootText.stat = "missing" THEN FALSE
    ELSE IF rootText.stat = "unreadable" THEN FALSE
    ELSE Contains(content(rootText.lines), ExpectedDirective(budget_file))

InitInclude ==
    /\ rootFile = <<>>
    /\ incFile = <<>>
    /\ overlayFile = <<>>
    /\ rootIncludesOverlay = FALSE
    /\ mtime = [f \in Files |-> 0]
    /\ now = StartClock
    /\ today = DayOf(StartClock)
    /\ _entries = <<>>
    /\ _loaded = FALSE
    /\ lastOp = "init"
    /\ parsed = FALSE
    /\ lastArg = <<>>
    /\ retEntries = <<>>
    /\ retBudgets = NoBudgets
    /\ mtimeAtLoad = [f \in Files |-> 0]
    /\ edits = 0
    /\ _errors = <<>>
    /\ ret = NoRet
    /\ http = NoHttp
    /\ instances = 0
    /\ rootText = RootTextOf(FALSE)
    /\ budget_file = BudgetPath
    /\ SideInit

\* what the steps of SpecInclude leave alone
includeFrame ==
    <<rootFile, incFile, overlayFile, rootIncludesOverlay, mtime, now, today, _entries,
      _loaded, parsed, lastArg, retEntries, retBudgets, mtimeAtLoad, edits, _errors,
      http, instances, error, validation, sideVars>>

\* a line is added to the root file
WriteLine ==
    \E line \in RootLines :
        /\ Len(rootText.lines) < MaxLines
        /\ rootText' = [rootText EXCEPT !.lines = Append(@, line)]
        /\ lastOp' = "init"
        /\ ret' = NoRet
        /\ UNCHANGED budget_file
        /\ UNCHANGED includeFrame

\* the root file is removed, made unreadable, or put back
SetRootStat ==
    \E st \in {"ok", "missing", "unreadable"} :
        /\ st # rootText.stat
        /\ rootText' = [rootText EXCEPT !.stat = st]
        /\ lastOp' = "init"
        /\ ret' = NoRet
        /\ UNCHANGED budget_file
        /\ UNCHANGED includeFrame

\* BeancountService(filepath, budget_file=...)
Construct ==
    \E path \in BudgetPaths :
        /\ path # budget_file
        /\ budget_file' = path
        /\ lastOp' = "init"
        /\ ret' = NoRet
        /\ UNCHANGED rootText
        /\ UNCHANGED includeFrame

\* service.check_budget_include()
CheckBudgetInclude ==
    /\ ret' = Returns("check_budget_include", <<>>, check_budget_include)
    /\ lastOp' = "check_budget_include"
    /\ UNCHANGED <<rootText, budget_file>>
    /\ UNCHANGED includeFrame

NextInclude ==
    \/ WriteLine
    \/ SetRootStat
    \/ Construct
    \/ CheckBudgetInclude

SpecInclude == InitInclude /\ [][NextInclude]_vars

\* the line is an include directive for the path
IsIncludeOf(line, path) == line = IncludeText(path)

\* C18: check_budget_include returns, without raising, true exactly when the
\* root file can be read and one of its lines is the include directive naming
\* the budget file by its path relative to the root file's directory; so it
\* returns false when the root file is missing or unreadable.
C18_TrueIffIncludeLine ==
    lastOp = "check_budget_include" =>
        /\ ~ret.raised
        /\ ret.value
              = (/\ rootText.stat = "ok"
                 /\ \E i \in 1..Len(rootText.lines) :
                        IsIncludeOf(rootText.lines[i],
                                    relpath(budget_file, dirname(RootPath))))

(***************************************************************************)
(* Claims about keys, validity, ties and purity of the resolver             *)
(* (SpecResolve)                                                            *)
(***************************************************************************)
\* the returned allocations whose Resolution Key is that of directive d
ReturnedForKey(d) == {p \in 1..Len(Returned) : AllocKey(Returned[p]) = SpecKey(d)}

\* C22: the tag component of the Resolution Key is the sorted and de-duplicated
\* tag set: two valid directives equal in account, start_date and discriminator
\* whose tag lists hold the same tags (repeated or not, "a,a" and "a") share one
\* key, and the result holds a single allocation for them.
C22_RepeatedTagsShareKey ==
    (Resolved /\ AllWellTyped) =>
        \A i \in ValidIdx, j \in ValidIdx :
            (i # j /\ SpecKey(_entries[i]) = SpecKey(_entries[j])) =>
                Cardinality(ReturnedForKey(_entries[i])) = 1

\* the directive carries an end_date that is not ISO-parseable
BadEndDate(d) ==
    d.kind = "budget" /\ Present(d.end_date) /\ ~IsIsoDate(d.end_date.v)

\* the allocation b carries the values and the metadata of directive d, in the
\* variant that d's metadata selects
TypedFrom(b, d) ==
    /\ b.account = d.account
    /\ b.amount = d.amount
    /\ b.currency = d.currency
    /\ Present(d.start_date) /\ IsIsoDate(d.start_date.v)
    /\ b.start_date = Calendar[d.start_date.v]
    /\ Present(d.created_at) => IntParses(d.created_at.v)
    /\ b.created_at = <<SpecCreated(d)>>
    /\ Elements(b.tags) = TagSet(d)
    /\ IF Present(d.frequency)
       THEN b.variant = "Standard" /\ b.frequency = <<d.frequency.v>>
       ELSE b.variant = "Custom"

\* C23: a budget directive whose end_date is present and not ISO-parseable is
\* excluded from the result of get_active_budgets, with or without a frequency:
\* the call does not raise, and a returned allocation that carries the values of
\* such a directive is the typed form of some valid directive of the history.
C23_UnparseableEndDateExcluded ==
    (Resolved /\ AllWellTyped) =>
        /\ ~retBudgets.raised
        /\ \A i \in 1..Len(_entries) :
               BadEndDate(_entries[i]) =>
                   \A p \in 1..Len(Returned) :
                       TypedFrom(Returned[p], _entries[i]) =>
                           \E j \in ValidIdx : Describes(Returned[p], _entries[j])

\* the valid directives of directive i's key that carry the key's greatest created_at
Tied(i) ==
    {j \in KeyMates(i) :
        SpecCreated(_entries[j]) = MaxOf({SpecCreated(_entries[k]) : k \in KeyMates(i)})}

MinOf(S) == CHOOSE x \in S : \A y \in S : x <= y

\* C24: when several valid directives of one Resolution Key share the maximum
\* created_at, the result holds one allocation for the key, and it is the typed
\* form of the first of them in directive order (so every resolution of the same
\* history picks the same one).
C24_TieFirstEncounterWins ==
    (Resolved /\ AllWellTyped) =>
        \A i \in ValidIdx :
            Cardinality(Tied(i)) > 1 =>
                /\ Cardinality(ReturnedForKey(_entries[i])) = 1
                /\ \A p \in ReturnedForKey(_entries[i]) :
                       /\ Describes(Returned[p], _entries[MinOf(Tied(i))])
                       /\ Returned[p].amount = _entries[MinOf(Tied(i))].amount

\* the valid directives that have the Resolution Key of the allocation b
ValidOfKey(b) == {i \in ValidIdx : SpecKey(_entries[i]) = AllocKey(b)}

\* C30: get_active_budgets is a pure projection of the cached directives: on a
\* loaded service over string-typed directives it invokes no parser, changes
\* neither the cached entries, the loaded flag nor a file, a call that follows
\* another call returns the same list, and the allocations are returned in the
\* order in which the first valid directive of each key is encountered.
C30_PureProjection ==
    [][(_loaded /\ AllWellTyped /\ ServiceStep /\ lastOp' = "get_active_budgets") =>
          /\ ~parsed'
          /\ _entries' = _entries
          /\ _loaded' = _loaded
          /\ <<rootFile, incFile, overlayFile, mtime>>'
                 = <<rootFile, incFile, overlayFile, mtime>>
          /\ ~retBudgets'.raised
          /\ lastOp = "get_active_budgets" => retBudgets' = retBudgets
          /\ \A p \in 1..Len(retBudgets'.budgets) :
                 ValidOfKey(retBudgets'.budgets[p]) # {}
          /\ \A p \in 1..Len(retBudgets'.budgets), q \in 1..Len(retBudgets'.budgets) :
                 (/\ p < q
                  /\ ValidOfKey(retBudgets'.budgets[p]) # {}
                  /\ ValidOfKey(retBudgets'.budgets[q]) # {}) =>
                     MinOf(ValidOfKey(retBudgets'.budgets[p]))
                         < MinOf(ValidOfKey(retBudgets'.budgets[q]))]_vars

(***************************************************************************)
(* The hierarchy validation of create_budget: specification SpecHierarchy   *)
(*                                                                          *)
(* The root file, which includes the overlay, gets budgets on a parent      *)
(* account, on its children, on accounts with look-alike names and on a     *)
(* deeper descendant; allocations are posted for the parent and for a child.*)
(***************************************************************************)
ExpensesFoodie == <<"Expenses", ":", "Food", "ie">>

Expenses2Rent == <<"Expenses", "2", ":", "Rent">>

ExpensesFoodOut == <<"Expenses", ":", "Food", ":", "Out">>

\* a Standard monthly budget directive of the ledger
Monthly(acc, amt) ==
    BudgetDirective(0, acc, amt, "USD", Str("2024-01-01"), Str("monthly"), NoStr,
                    NoText, Str(<<"1">>))

\* what the root file of SpecHierarchy is written from
HierarchyDirectives ==
    { Monthly(Expenses, 10),
      Monthly(ExpensesRent, 6),
      Monthly(ExpensesFood, 3),
      Monthly(ExpensesFoodie, 1),
      Monthly(Expenses2Rent, 4),
      Monthly(ExpensesFoodOut, 2),
      BudgetDirective(0, ExpensesRent, 7, "USD", Str("2024-01-15"), NoStr,
                      Str("2024-01-20"), NoText, Str(<<"1">>)) }

\* the bodies of POST /budgets: a child, the parent, and a custom budget
HierarchyAllocations ==
    { StandardBudget(ExpensesFood, 5, "USD", <<>>, <<>>, 1, "monthly"),
      StandardBudget(Expenses, 5, "USD", <<>>, <<>>, 1, "monthly"),
      CustomBudget(ExpensesFood, 5, "USD", <<>>, <<>>, 15, 20) }

\* someone adds a budget directive to the root file
WriteAccounts ==
    \E d \in HierarchyDirectives :
        /\ Len(rootFile) < MaxLedger
        /\ rootFile' = Append(rootFile, Chunk("", d))
        /\ mtime' = [mtime EXCEPT !["root"] = @ + 1]
        /\ UNCHANGED <<incFile, overlayFile, rootIncludesOverlay, now, today, _entries,
                       _loaded, lastOp, parsed, lastArg, retEntries, retBudgets,
                       mtimeAtLoad, edits, _errors>>
        /\ UNCHANGED extVars

\* POST /budgets
PostAllocation == \E allocation \in HierarchyAllocations : create_budget(allocation)

NextHierarchy ==
    \/ WriteAccounts
    \/ PostAllocation

SpecHierarchy == InitApi /\ [][NextHierarchy]_vars

(***************************************************************************)
(* Claims about the hierarchy validation (SpecHierarchy)                    *)
(***************************************************************************)
\* the last request was a POST /budgets
Posted == http.route = "POST /budgets"

Segments(acc) == split(acc, ":")

\* c is a direct child of a: a's segments followed by one more segment
IsChildOf(c, a) ==
    /\ Len(Segments(c)) = Len(Segments(a)) + 1
    /\ SubSeq(Segments(c), 1, Len(Segments(a))) = Segments(a)

\* y is a sibling of x: another account with the same parent at the same depth
IsSiblingOf(y, x) ==
    /\ Len(Segments(x)) > 1
    /\ Len(Segments(y)) = Len(Segments(x))
    /\ SubSeq(Segments(y), 1, Len(Segments(y)) - 1)
           = SubSeq(Segments(x), 1, Len(Segments(x)) - 1)
    /\ y # x

\* the active Standard allocations on the direct children of account a
ChildAllocations(a) ==
    SelectSeq(validation.standard_budgets, LAMBDA b : IsChildOf(b.account, a))

\* C26: when a Standard allocation is posted for an account whose direct children
\* (exactly one level deeper) carry active Standard allocations, the validator
\* sums their amounts, and when the new amount is less than the sum the answer
\* flags it: it is not the plain {"status": "ok"} that an allocation covering its
\* children gets.
C26_InsufficientForChildrenFlagged ==
    (Posted /\ validation.checked /\ ChildAllocations(http.query[1].account) # <<>>) =>
        /\ validation.children_sum
               = <<SumAmounts(ChildAllocations(http.query[1].account))>>
        /\ http.query[1].amount < SumAmounts(ChildAllocations(http.query[1].account))
               => ~(http.status = 200 /\ http.detail = "" /\ http.body = <<"ok">>)

\* C27: the validator's relations follow the ":" boundary only: the siblings it
\* sums for an allocation on P:x are exactly the active Standard allocations on
\* the other accounts P:y with y one segment, its children of A are exactly those
\* on A:z with z one segment; an account whose name only starts with the same
\* characters, a deeper descendant and the account of the allocation itself are
\* not counted.
C27_ColonBoundaryOnly ==
    (Posted /\ validation.checked) =>
        /\ validation.siblings # <<>> =>
               /\ validation.siblings[1]
                      = SelectSeq(validation.standard_budgets,
                                  LAMBDA b : IsSiblingOf(b.account,
                                                         http.query[1].account))
               /\ validation.siblings_used = <<SumAmounts(validation.siblings[1])>>
        /\ validation.children = ChildAllocations(http.query[1].account)

\* the Standard budgets the validator saw include one on this account
Saw(acc) ==
    \E i \in 1..Len(validation.standard_budgets) :
        validation.standard_budgets[i].account = acc

\* C27 witness: an allocation was posted for Expenses when Expenses:Rent and
\* Expenses2:Rent had budgets, and only Expenses:Rent was taken for a child
C27_Witness ==
    /\ Posted
    /\ validation.checked
    /\ http.query[1].account = Expenses
    /\ Saw(ExpensesRent)
    /\ Saw(Expenses2Rent)
    /\ Len(validation.children) = 1
    /\ validation.children[1].account = ExpensesRent

(***************************************************************************)
(* A changing set of included files: specification SpecSnapshot             *)
(*                                                                          *)
(* The include of the included file is added to or removed from the root    *)
(* file, the included file is edited, and the service is loaded and read.   *)
(***************************************************************************)
InitSnapshot ==
    /\ rootFile \in {<<>>} \cup {<<Chunk("", d)>> : d \in LedgerDirectives}
    /\ incFile = <<Chunk("", OpenDirective(1, "Expenses:Food"))>>
    /\ overlayFile = <<>>
    /\ rootIncludesOverlay \in BOOLEAN
    /\ mtime = [f \in Files |-> 0]
    /\ now = StartClock
    /\ today = DayOf(StartClock)
    /\ _entries = <<>>
    /\ _loaded = FALSE
    /\ lastOp = "init"
    /\ parsed = FALSE
    /\ lastArg = <<>>
    /\ retEntries = <<>>
    /\ retBudgets = NoBudgets
    /\ mtimeAtLoad = [f \in Files |-> 0]
    /\ edits = 0
    /\ _errors = <<>>
    /\ ret = NoRet
    /\ http = NoHttp
    /\ instances = 0
    /\ rootText = RootTextOf(rootIncludesOverlay)
    /\ budget_file = BudgetPath
    /\ rootIncludesInc \in BOOLEAN
    /\ overlayWritable = TRUE
    /\ error = ""
    /\ validation = NoValidation
    /\ pc = [t \in Threads |-> "idle"]
    /\ frame = [t \in Readers |-> NoFrame]

\* someone adds the include of the included file to the root file, or removes
\* it: the root file's mtime advances
ChangeInclude ==
    /\ mtime["root"] < MaxEdits
    /\ rootIncludesInc' = ~rootIncludesInc
    /\ mtime' = [mtime EXCEPT !["root"] = @ + 1]
    /\ edits' = edits + 1
    /\ UNCHANGED <<rootFile, incFile, overlayFile, rootIncludesOverlay, now, today,
                   _entries, _loaded, lastOp, parsed, lastArg, retEntries, retBudgets,
                   mtimeAtLoad, _errors>>
    /\ UNCHANGED <<ret, http, instances, rootText, budget_file, error, validation,
                   overlayWritable, pc, frame>>

\* someone edits the included file by hand: a directive is added, its mtime advances
EditIncluded ==
    /\ mtime["inc"] < MaxEdits
    /\ incFile' = Append(incFile, Chunk("", HandEdit))
    /\ mtime' = [mtime EXCEPT !["inc"] = @ + 1]
    /\ edits' = edits + 1
    /\ UNCHANGED <<rootFile, overlayFile, rootIncludesOverlay, now, today,
                   _entries, _loaded, lastOp, parsed, lastArg, retEntries, retBudgets,
                   mtimeAtLoad, _errors>>
    /\ UNCHANGED extVars

NextSnapshot ==
    \/ Load
    \/ ReadEntries
    \/ GetActiveBudgets
    \/ ChangeInclude
    \/ EditIncluded

SpecSnapshot == InitSnapshot /\ [][NextSnapshot]_vars

\* the last load followed a change of the inclusion set, and the root file is as
\* that load read it: the included file is in the set the parser reported iff
\* the root file carries its include now
LoadedAfterIncludeChange ==
    /\ _loaded
    /\ mtimeAtLoad["root"] > 0
    /\ mtime["root"] = mtimeAtLoad["root"]

\* C28: the freshness snapshot is rebuilt from the inclusion set at every reload:
\* after a reload in which the inclusion set changed, a read of entries invokes
\* the loader when a file included since that reload has changed its mtime, and
\* does not when the only file changed is one that is no longer included.
C28_SnapshotRebuiltEachReload ==
    [][(LoadedAfterIncludeChange /\ AccessStep) =>
          (parsed' <=> (rootIncludesInc /\ mtime["inc"] > mtimeAtLoad["inc"]))]_vars

(***************************************************************************)
(* An overlay that cannot be written: specification SpecPermissions         *)
(*                                                                          *)
(* The permissions of the overlay are changed from outside, and add_budget  *)
(* is called on a service whose ledger is read in between.                  *)
(***************************************************************************)
InitPermissions ==
    /\ rootFile \in {<<>>} \cup {<<Chunk("", d)>> : d \in LedgerDirectives}
    /\ incFile = <<>>
    /\ overlayFile = <<>>
    /\ rootIncludesOverlay \in BOOLEAN
    /\ mtime = [f \in Files |-> 0]
    /\ now = StartClock
    /\ today = DayOf(StartClock)
    /\ _entries = <<>>
    /\ _loaded = FALSE
    /\ lastOp = "init"
    /\ parsed = FALSE
    /\ lastArg = <<>>
    /\ retEntries = <<>>
    /\ retBudgets = NoBudgets
    /\ mtimeAtLoad = [f \in Files |-> 0]
    /\ edits = 0
    /\ _errors = <<>>
    /\ ret = NoRet
    /\ http = NoHttp
    /\ instances = 0
    /\ rootText = RootTextOf(rootIncludesOverlay)
    /\ budget_file = BudgetPath
    /\ rootIncludesInc = TRUE
    /\ overlayWritable \in BOOLEAN
    /\ error = ""
    /\ validation = NoValidation
    /\ pc = [t \in Threads |-> "idle"]
    /\ frame = [t \in Readers |-> NoFrame]

\* someone takes away or gives back the permission to write the overlay
SetOverlayMode ==
    /\ edits < MaxEdits
    /\ edits' = edits + 1
    /\ overlayWritable' = ~overlayWritable
    /\ UNCHANGED <<rootFile, incFile, overlayFile, rootIncludesOverlay, mtime, now,
                   today, _entries, _loaded, lastOp, parsed, lastArg, retEntries,
                   retBudgets, mtimeAtLoad, _errors>>
    /\ UNCHANGED <<ret, http, instances, rootText, budget_file, error, validation,
                   rootIncludesInc, pc, frame>>

NextPermissions ==
    \/ AddBudget
    \/ ReadEntries
    \/ SetOverlayMode

SpecPermissions == InitPermissions /\ [][NextPermissions]_vars

InitThreads ==
    /\ rootFile \in {<<>>} \cup {<<Chunk("", d)>> : d \in LedgerDirectives}
    /\ incFile = <<>>
    /\ overlayFile = <<>>
    /\ rootIncludesOverlay = TRUE
    /\ mtime = [f \in Files |-> 0]
    /\ now = StartClock
    /\ today = DayOf(StartClock)
    /\ _entries = <<>>
    /\ _loaded = FALSE
    /\ lastOp = "init"
    /\ parsed = FALSE
    /\ lastArg = <<>>
    /\ retEntries = <<>>
    /\ retBudgets = NoBudgets
    /\ mtimeAtLoad = [f \in Files |-> 0]
    /\ edits = 0
    /\ _errors = <<>>
    /\ ret = NoRet
    /\ http = NoHttp
    /\ instances = 0
    /\ rootText = RootTextOf(TRUE)
    /\ budget_file = BudgetPath
    /\ SideInit

\* what no step of a thread changes
threadFrame ==
    <<rootFile, incFile, rootIncludesOverlay, now, today, lastOp, parsed, retEntries,
      retBudgets, mtimeAtLoad, edits, ret, http, instances, rootText, budget_file,
      rootIncludesInc, overlayWritable, error, validation>>

\* the calls of add_budget that have returned
Completed ==
    IF pc[Writer] = "invalidate" THEN Len(overlayFile) - 1 ELSE Len(overlayFile)

\* a reader enters the entries property and evaluates "if not self._loaded"
ReaderTest(r) ==
    /\ pc[r] = "idle"
    /\ pc' = [pc EXCEPT ![r] = IF ~_loaded THEN "call" ELSE "return"]
    /\ frame' = [frame EXCEPT ![r] = [NoFrame EXCEPT !.since = Completed]]
    /\ UNCHANGED <<overlayFile, mtime, _entries, _errors, _loaded, lastArg>>
    /\ UNCHANGED threadFrame

\* load: self.loader_func(self.filepath) reads the files
ReaderCall(r) ==
    /\ pc[r] = "call"
    /\ pc' = [pc EXCEPT ![r] = "store"]
    /\ frame' = [frame EXCEPT ![r].fetched =
                     LoadFile(rootFile, IncludedFile, overlayFile, rootIncludesOverlay)]
    /\ UNCHANGED <<overlayFile, mtime, _entries, _errors, _loaded, lastArg>>
    /\ UNCHANGED threadFrame

\* load: self._entries, self._errors, self._options = ...
ReaderStore(r) ==
    /\ pc[r] = "store"
    /\ pc' = [pc EXCEPT ![r] = "mark"]
    /\ _entries' = frame[r].fetched
    /\ UNCHANGED <<overlayFile, mtime, _errors, _loaded, lastArg, frame>>
    /\ UNCHANGED threadFrame

\* load: self._loaded = True
ReaderMark(r) ==
    /\ pc[r] = "mark"
    /\ pc' = [pc EXCEPT ![r] = "return"]
    /\ _loaded' = TRUE
    /\ UNCHANGED <<overlayFile, mtime, _entries, _errors, lastArg, frame>>
    /\ UNCHANGED threadFrame

\* entries: return self._entries
ReaderReturn(r) ==
    /\ pc[r] = "return"
    /\ pc' = [pc EXCEPT ![r] = "idle"]
    /\ frame' = [frame EXCEPT ![r].result = _entries, ![r].returned = TRUE]
    /\ UNCHANGED <<overlayFile, mtime, _entries, _errors, _loaded, lastArg>>
    /\ UNCHANGED threadFrame

\* add_budget up to the end of the with block: the directive is in the overlay
WriterAppend ==
    \E allocation \in Allocations :
        /\ pc[Writer] = "idle"
        /\ Len(overlayFile) < MaxAdds
        /\ pc' = [pc EXCEPT ![Writer] = "invalidate"]
        /\ overlayFile' = AppendedOverlay(allocation)
        /\ mtime' = [mtime EXCEPT !["overlay"] = @ + 1]
        /\ lastArg' = <<Stamped(allocation)>>
        /\ UNCHANGED <<_entries, _errors, _loaded, frame>>
        /\ UNCHANGED threadFrame

\* add_budget: self._loaded = False, and the call returns
WriterInvalidate ==
    /\ pc[Writer] = "invalidate"
    /\ pc' = [pc EXCEPT ![Writer] = "idle"]
    /\ _loaded' = LoadedAfterAdd
    /\ UNCHANGED <<overlayFile, mtime, _entries, _errors, lastArg, frame>>
    /\ UNCHANGED threadFrame

NextThreads ==
    \/ \E r \in Readers : ReaderTest(r)
    \/ \E r \in Readers : ReaderCall(r)
    \/ \E r \in Readers : ReaderStore(r)
    \/ \E r \in Readers : ReaderMark(r)
    \/ \E r \in Readers : ReaderReturn(r)
    \/ WriterAppend
    \/ WriterInvalidate

SpecThreads == InitThreads /\ [][NextThreads]_vars

\* C21: with one service shared by a writer and readers, a read of entries that
\* started after a call of add_budget had returned returns the directive that
\* call appended, in every interleaving of the threads.
C21_ReadAfterAddSeesDirective ==
    \A r \in Readers :
        frame[r].returned =>
            \A i \in 1..frame[r].since :
                \E k \in 1..Len(frame[r].result) :
                    frame[r].result[k] = overlayFile[i].entry

(***************************************************************************)
(* Claims about metadata that is not a string (SpecResolve)                 *)
(***************************************************************************)
\* a budget directive whose start_date or end_date is present and no string
NonStringDate(d) ==
    /\ d.kind = "budget"
    /\ \/ d.start_date.t \notin {"absent", "str"}
       \/ d.end_date.t \notin {"absent", "str"}

WithoutNonStringDates(l) == SelectSeq(l, LAMBDA d : ~NonStringDate(d))

\* C35: a budget directive whose start_date or end_date is not a string (a date
\* literal written without quotes) is dropped like any malformed directive:
\* get_active_budgets does not raise, and it returns what it returns over the
\* history without these directives.
C35_NonStringDateDropped ==
    Resolved =>
        /\ ~retBudgets.raised
        /\ Returned = ResolveEntries(WithoutNonStringDates(_entries)).budgets

(***************************************************************************)
(* Claims about a directive appended to a history (SpecResolve)             *)
(***************************************************************************)
\* the history without its last directive, and what is resolved from it
Earlier == SubSeq(_entries, 1, Len(_entries) - 1)

ReturnedEarlier == ResolveEntries(Earlier).budgets

\* the allocations of a result that have the Resolution Key k, and the others
OfKey(budgets, k) == SelectSeq(budgets, LAMBDA b : AllocKey(b) = k)

NotOfKey(budgets, k) == SelectSeq(budgets, LAMBDA b : AllocKey(b) # k)

\* the valid directives before the last one that have the Resolution Key k
EarlierOfKey(k) ==
    {i \in 1..(Len(_entries) - 1) : SpecValid(_entries[i]) /\ SpecKey(_entries[i]) = k}

\* C33: when a valid budget directive with Resolution Key k is appended to a
\* history, the allocations resolved for every other key are the ones resolved
\* before (none added, none removed, none changed), and what is resolved for k
\* differs from before only when k had no valid directive or the created_at of the
\* new directive is strictly greater than that of every earlier valid directive
\* of k.
C33_AppendTouchesOnlyItsKey ==
    (Resolved /\ Len(_entries) > 0 /\ AllWellTyped
              /\ SpecValid(_entries[Len(_entries)])) =>
        LET new == _entries[Len(_entries)]
            k == SpecKey(new)
        IN  /\ NotOfKey(Returned, k) = NotOfKey(ReturnedEarlier, k)
            /\ OfKey(Returned, k) # OfKey(ReturnedEarlier, k) =>
                   \/ EarlierOfKey(k) = {}
                   \/ \A i \in EarlierOfKey(k) :
                          SpecCreated(new) > SpecCreated(_entries[i])

(***************************************************************************)
(* Claims about lazy loading (SpecLedger)                                   *)
(***************************************************************************)
\* BeancountService(...) is constructed in this step
ConstructStep == lastOp' = "init" /\ rootFile' # rootFile

\* C31: loading is lazy. Constructing the service does not invoke the loader and
\* leaves the service not loaded; the first access to the entries after the
\* construction invokes the loader (once: the access ends loaded, with what the
\* loader returned); an access that follows another access of the same service
\* does not invoke it again and finds the same entries, so the loader was called
\* once.
C31_LazyLoading ==
    [][/\ ConstructStep => (~parsed' /\ ~_loaded' /\ _entries' = <<>>)
       /\ (lastOp = "init" /\ ReadStep) =>
              /\ parsed'
              /\ _loaded'
              /\ _entries' = LoadFile(rootFile, IncludedFile, overlayFile,
                                      rootIncludesOverlay)
       /\ (lastOp \in ReadOps /\ ReadStep) =>
              (~parsed' /\ _loaded' /\ _entries' = _entries)]_vars

\* C31 witness: the entries of a service were read a second time and came from
\* the cache
C31_Witness ==
    /\ lastOp = "entries"
    /\ ~parsed
    /\ _loaded
    /\ retEntries # <<>>
    /\ retEntries = _entries

(***************************************************************************)
(* A root file that cannot be read: specification SpecUnreadable            *)
(*                                                                          *)
(* The permission to read the root file is taken away and given back while  *)
(* the service is loaded, read and written through.                         *)
(***************************************************************************)
InitUnreadable ==
    /\ rootFile \in {<<>>} \cup {<<Chunk("", d)>> : d \in LedgerDirectives}
    /\ incFile = <<>>
    /\ overlayFile = <<>>
    /\ rootIncludesOverlay \in BOOLEAN
    /\ mtime = [f \in Files |-> 0]
    /\ now = StartClock
    /\ today = DayOf(StartClock)
    /\ _entries = <<>>
    /\ _loaded = FALSE
    /\ lastOp = "init"
    /\ parsed = FALSE
    /\ lastArg = <<>>
    /\ retEntries = <<>>
    /\ retBudgets = NoBudgets
    /\ mtimeAtLoad = [f \in Files |-> 0]
    /\ edits = 0
    /\ _errors = <<>>
    /\ ret = NoRet
    /\ http = NoHttp
    /\ instances = 0
    /\ \E st \in {"ok", "unreadable"} :
           rootText = [RootTextOf(rootIncludesOverlay) EXCEPT !.stat = st]
    /\ budget_file = BudgetPath
    /\ SideInit

\* someone takes away or gives back the permission to read the root file
SetRootMode ==
    /\ rootText' = [rootText EXCEPT
                        !.stat = IF @ = "ok" THEN "unreadable" ELSE "ok"]
    /\ UNCHANGED <<rootFile, incFile, overlayFile, rootIncludesOverlay, mtime, now,
                   today, _entries, _loaded, lastOp, parsed, lastArg, retEntries,
                   retBudgets, mtimeAtLoad, edits, _errors>>
    /\ UNCHANGED <<ret, http, instances, budget_file, error, validation, sideVars>>

NextUnreadable ==
    \/ Load
    \/ ReadEntries
    \/ GetActiveBudgets
    \/ AddBudget
    \/ SetRootMode

SpecUnreadable == InitUnreadable /\ [][NextUnreadable]_vars

(***************************************************************************)
(* Claims about a loader that raises (SpecUnreadable)                       *)
(***************************************************************************)
LoadOps == {"load"} \cup AccessOps

\* one of these operations of the service ran in this step
CallOf(ops) == rootText' = rootText /\ lastOp' \in ops

\* C32: when the loader raises during a load, the exception reaches the caller of
\* load, entries or get_active_budgets (nothing is returned), the service is
\* not loaded afterwards and its cached entries are the ones it had, and the
\* access to the entries that follows the failed load invokes the loader again.
C32_FailedLoadNotCached ==
    [][/\ (CallOf(LoadOps) /\ parsed' /\ LoaderRaises) =>
              /\ error' # ""
              /\ lastOp' = "entries" => retEntries' = <<>>
              /\ lastOp' = "get_active_budgets" => retBudgets'.raised
              /\ _entries' = _entries
              /\ ~_loaded'
       /\ (error # "" /\ lastOp \in LoadOps /\ CallOf(AccessOps)) => parsed']_vars

(***************************************************************************)
(* A budget written and read back: specification SpecRoundTrip              *)
(*                                                                          *)
(* Budget directives are added to the root file by hand, allocations with   *)
(* and without a created_at are posted (each POST calls add_budget on a new *)
(* service), and the budgets are read back (each GET loads a new service    *)
(* and calls get_active_budgets).                                           *)
(***************************************************************************)
\* how many directives are added to the root file of SpecRoundTrip
MaxRivals == 1

\* what the root file of SpecRoundTrip is written from: rivals of the posted
\* allocations, older and newer, and a budget of another account
RoundTripDirectives ==
    { Monthly(ExpensesFood, 3),
      BudgetDirective(0, ExpensesFood, 4, "USD", Str("2024-01-01"), Str("monthly"),
                      NoStr, Str(<<"a", ",", "b">>), Str(<<"9">>)),
      BudgetDirective(0, ExpensesFood, 4, "USD", Str("2024-01-01"), Str("monthly"),
                      NoStr, Str(<<"a">>), Str(<<"1">>)),
      Monthly(ExpensesRent, 6) }

\* the bodies of POST /budgets: without created_at, with created_at 0, with
\* tags and a created_at, with a repeated tag, and a custom budget
RoundTripAllocations ==
    { StandardBudget(ExpensesFood, 5, "USD", <<>>, <<>>, 1, "monthly"),
      StandardBudget(ExpensesFood, 5, "USD", <<>>, <<0>>, 1, "monthly"),
      StandardBudget(ExpensesFood, 6, "USD", <<<<"b">>, <<"a">>>>, <<2>>, 1, "monthly"),
      StandardBudget(ExpensesFood, 7, "USD", <<<<"a">>, <<"a">>>>, <<>>, 1, "monthly"),
      CustomBudget(ExpensesFood, 5, "USD", <<>>, <<>>, 15, 20) }

\* someone adds a budget directive to the root file
WriteRival ==
    \E d \in RoundTripDirectives :
        /\ Len(rootFile) < MaxRivals
        /\ rootFile' = Append(rootFile, Chunk("", d))
        /\ mtime' = [mtime EXCEPT !["root"] = @ + 1]
        /\ UNCHANGED <<incFile, overlayFile, rootIncludesOverlay, now, today, _entries,
                       _loaded, lastOp, parsed, lastArg, retEntries, retBudgets,
                       mtimeAtLoad, edits, _errors>>
        /\ UNCHANGED extVars

\* POST /budgets
PostRoundTrip == \E allocation \in RoundTripAllocations : create_budget(allocation)

NextRoundTrip ==
    \/ WriteRival
    \/ PostRoundTrip
    \/ GetBudgets

SpecRoundTrip == InitApi /\ [][NextRoundTrip]_vars

(***************************************************************************)
(* Claims about the round trip of a write (SpecRoundTrip)                   *)
(***************************************************************************)
\* the last request was a POST /budgets that wrote its allocation
Wrote == http.route = "POST /budgets" /\ http.status = 200 /\ overlayFile # <<>>

\* the directive the last add_budget wrote
WrittenDirective == overlayFile[Len(overlayFile)].entry

\* the directives of the ledger other than the one written last
OtherDirectives ==
    {rootFile[i].entry : i \in 1..Len(rootFile)}
        \cup {overlayFile[i].entry : i \in 1..(Len(overlayFile) - 1)}

\* a valid directive of the key of allocation a whose created_at is at least c
Rivals(a, c) ==
    {d \in OtherDirectives :
        SpecValid(d) /\ SpecKey(d) = AllocKey(a) /\ SpecCreated(d) >= c}

\* allocation b carries the fields of the posted allocation a, created at c
SameAllocation(b, a, c) ==
    /\ b.variant = a.variant
    /\ b.account = a.account
    /\ b.amount = a.amount
    /\ b.currency = a.currency
    /\ b.start_date = a.start_date
    /\ b.frequency = a.frequency
    /\ b.end_date = a.end_date
    /\ Elements(b.tags) = Elements(a.tags)
    /\ b.created_at = <<c>>

\* C34: the round trip of a write. The directive add_budget writes carries the
\* created_at of the allocation when it has one (0 included) and the current
\* time when it has none; and when the budgets are read back with the overlay
\* included and no other valid directive of the allocation's key has a
\* created_at that is at least as great, the result holds an allocation with the
\* variant, account, amount, currency, start_date, frequency or end_date, tag
\* set and created_at of the allocation written.
C34_WriteRoundTrip ==
    [][/\ (Served("POST /budgets") /\ http'.status = 200) =>
              /\ overlayFile' # overlayFile
              /\ SpecCreated(overlayFile'[Len(overlayFile')].entry)
                     = IF http'.query[1].created_at # <<>>
                       THEN http'.query[1].created_at[1]
                       ELSE now
       /\ (Wrote /\ Served("GET /budgets") /\ rootIncludesOverlay
                 /\ Rivals(http.query[1], SpecCreated(WrittenDirective)) = {}) =>
              /\ http'.status = 200
              /\ \E p \in 1..Len(http'.body) :
                     SameAllocation(http'.body[p], http.query[1],
                                    SpecCreated(WrittenDirective))]_vars

\* C34 witness: an allocation posted with created_at 0 was read back with
\* created_at 0, next to a budget of the root file
C34_Witness ==
    /\ http.route = "GET /budgets"
    /\ http.status = 200
    /\ rootFile # <<>>
    /\ lastArg = <<>>
    /\ overlayFile # <<>>
    /\ \E p \in 1..Len(http.body) :
           /\ http.body[p].created_at = <<0>>
           /\ http.body[p].amount = 5

====
